---- MODULE Spec2Model ----
(***************************************************************************)
(* Conversation Intelligence Engine of the honeypot API (src/main.py and   *)
(* src/backend/database.py): the per-session pipeline of the /api/honeypot *)
(* and /api/simulate handlers, the pure text functions they call, and the  *)
(* SQLite tables they write.                                               *)
(*                                                                         *)
(* Texts are TLA+ strings; a character is a string of length 1.            *)
(* Confidences and scores are in hundredths (0.15 is 15, 1.0 is 100).      *)
(* The handlers are coroutines on one event loop: a step of the model is   *)
(* the code between two suspension points (asyncio.sleep).                 *)
(***************************************************************************)
EXTENDS Integers, Sequences, FiniteSets, TLC

\* ---------------------------------------------------------------- text

Digits == "0123456789"

UpperLetters == "ABCDEFGHIJKLMNOPQRSTUVWXYZ"

LowerLetters == "abcdefghijklmnopqrstuvwxyz"

CharAt(s, i) == SubSeq(s, i, i)

InChars(c, chars) == \E i \in 1..Len(chars) : CharAt(chars, i) = c

IsDigit(c) == InChars(c, Digits)

IsLetter(c) == InChars(c, UpperLetters) \/ InChars(c, LowerLetters)

\* \w of Python's re on the ASCII range
IsWordChar(c) == IsDigit(c) \/ IsLetter(c) \/ c = "_"

\* \s of Python's re on the ASCII range
IsSpace(c) == c \in {" ", "\t", "\n", "\r", "\f"}

LowerChar(c) ==
    IF InChars(c, UpperLetters)
    THEN CharAt(LowerLetters, CHOOSE i \in 1..Len(UpperLetters) : CharAt(UpperLetters, i) = c)
    ELSE c

RECURSIVE LowerFrom(_, _, _)
\* the characters i..j of s in lower case, by halves
LowerFrom(s, i, j) ==
    IF i > j THEN ""
    ELSE IF i = j THEN LowerChar(CharAt(s, i))
    ELSE LowerFrom(s, i, (i + j) \div 2) \o LowerFrom(s, (i + j) \div 2 + 1, j)

\* str.lower()
Lower(s) == LowerFrom(s, 1, Len(s))

\* s[i:].startswith(p), i is 1-based
StartsWithAt(s, i, p) ==
    /\ i + Len(p) - 1 <= Len(s)
    /\ SubSeq(s, i, i + Len(p) - 1) = p

\* p in s
Contains(s, p) == \E i \in 1..(Len(s) - Len(p) + 1) : StartsWithAt(s, i, p)

\* any(w in s for w in words)
ContainsAny(s, words) == \E w \in words : Contains(s, w)

\* the last index of the maximal run of digits starting at i (i - 1 when there is none)
RECURSIVE DigitRunEnd(_, _)
DigitRunEnd(s, i) ==
    IF i <= Len(s) /\ IsDigit(CharAt(s, i)) THEN DigitRunEnd(s, i + 1) ELSE i - 1

SeqContains(q, x) == \E i \in 1..Len(q) : q[i] = x

RECURSIVE JoinWith(_, _)
\* sep.join(q)
JoinWith(q, sep) ==
    IF Len(q) = 0 THEN ""
    ELSE IF Len(q) = 1 THEN q[1]
    ELSE q[1] \o sep \o JoinWith(Tail(q), sep)

\* ------------------------------------------------- inputs of the model

\* the message texts the clients send
Texts ==
    {"You won a free prize, verify bank: rewards@upi",
     "call 9876543210 or 9123456780"}

\* the message texts of a long session
LongTexts ==
    {"URGENT your account is blocked",
     "call 9876543210 or 9123456780"}

\* the contents a 200 answer of the reply generator carries
LLMContents == {"Victim: \"Oh no, what shud I do sir?\""}

\* the texts the n-th message of a scripted session is drawn from. The first is
\* scored a scam or is not; the second carries no identifier, a bank account, a
\* payment handle, a link, one phone number (after an underscore or after a space)
\* or two, a handle whose name holds "mail", or an email address with two other
\* handles; the later ones carry nothing
ScriptTexts(n) ==
    IF n = 1 THEN {"URGENT your account is blocked", "ok sir"}
    ELSE IF n = 2
    THEN {"ok sir",
          "acct 123456789",
          "pay rewards@upi",
          "see http://x.co",
          "no_9876543210",
          "call 9876543210",
          "no_9876543210 or_9123456780",
          "to mailbox@icici.co",
          "ids a@gmail.com b@fakebank c@xyz"}
    ELSE {"ok sir"}

\* every text a specification of this module feeds the text functions
\* messages that name the same value more than once
RepeatTexts ==
    {"acct 123456789 acct 123456789 urgent bank",
     "pay a@ybl a@ybl +919876543210 +919876543210",
     "see http://x.co http://x.co"}

KnownTexts == Texts \cup LongTexts \cup RepeatTexts \cup UNION {ScriptTexts(n) : n \in 1..3}

\* ------------------------------------------------------- intent scorer

SCAM_PATTERNS ==
    << [category |-> "urgency",
        keywords |-> <<"immediately", "urgent", "now", "today", "expire", "limited time">>],
       [category |-> "financial",
        keywords |-> <<"bank", "account", "upi", "payment", "transfer", "verify", "suspend", "block">>],
       [category |-> "threats",
        keywords |-> <<"blocked", "suspended", "legal action", "arrest", "penalty", "fine">>],
       [category |-> "requests",
        keywords |-> <<"share", "send", "provide", "click", "download", "install", "update">>],
       [category |-> "impersonation",
        keywords |-> <<"bank", "government", "police", "income tax", "customs", "rbi">>],
       [category |-> "reward",
        keywords |-> <<"won", "prize", "lottery", "reward", "cashback", "free", "offer">>] >>

RECURSIVE PatternPairsFrom(_, _)
PatternPairsFrom(c, k) ==
    IF c > Len(SCAM_PATTERNS) THEN << >>
    ELSE IF k > Len(SCAM_PATTERNS[c].keywords) THEN PatternPairsFrom(c + 1, 1)
    ELSE << [category |-> SCAM_PATTERNS[c].category, keyword |-> SCAM_PATTERNS[c].keywords[k]] >>
         \o PatternPairsFrom(c, k + 1)

\* the (category, keyword) pairs in the order the two nested loops visit them
PatternPairs == PatternPairsFrom(1, 1)

\* the increments of the score, in hundredths
KeywordIncrement == 15

DigitRunIncrement == 20

LinkIncrement == 25

EmailIncrement == 15

ScamThreshold == 30

FullConfidence == 100

Min(a, b) == IF a < b THEN a ELSE b

\* re.search(r'\d{10,}', text)
HasLongDigitRun(text) ==
    \E i \in 1..Len(text) : DigitRunEnd(text, i) - i + 1 >= 10

\* re.search(r'http[s]?://', text)
HasLinkPrefix(text) == Contains(text, "http://") \/ Contains(text, "https://")

IsEmailLocalChar(c) == IsLetter(c) \/ IsDigit(c) \/ c \in {".", "_", "%", "+", "-"}

IsEmailDomainChar(c) == IsLetter(c) \/ IsDigit(c) \/ c \in {".", "-"}

\* re.search(r'[A-Z0-9._%+-]+@[A-Z0-9.-]+\.[A-Z]{2,}', text, re.I)
HasEmail(text) ==
    \E at \in 2..Len(text) :
        /\ CharAt(text, at) = "@"
        /\ IsEmailLocalChar(CharAt(text, at - 1))
        /\ \E dot \in (at + 2)..(Len(text) - 2) :
              /\ \A j \in (at + 1)..(dot - 1) : IsEmailDomainChar(CharAt(text, j))
              /\ CharAt(text, dot) = "."
              /\ IsLetter(CharAt(text, dot + 1))
              /\ IsLetter(CharAt(text, dot + 2))

RECURSIVE KeywordTags(_, _)
\* the tags of the keywords found, pairs[i..] in order
KeywordTags(text_lower, i) ==
    IF i > Len(PatternPairs) THEN << >>
    ELSE (IF Contains(text_lower, PatternPairs[i].keyword)
          THEN << PatternPairs[i].category \o ":" \o PatternPairs[i].keyword >>
          ELSE << >>) \o KeywordTags(text_lower, i + 1)

IsScam(score) == score >= ScamThreshold

\* a confidence that is the sum itself
Unclamped(score) == score

ClampConfidence(score) == Min(score, FullConfidence)

detect_scam_intent(text) ==
    LET tags == KeywordTags(Lower(text), 1)
        digits == HasLongDigitRun(text)
        link == HasLinkPrefix(text)
        email == HasEmail(text)
        score == KeywordIncrement * Len(tags)
                 + (IF digits THEN DigitRunIncrement ELSE 0)
                 + (IF link THEN LinkIncrement ELSE 0)
                 + (IF email THEN EmailIncrement ELSE 0)
    IN  [is_scam |-> IsScam(score),
         confidence |-> ClampConfidence(score),
         score |-> score,
         patterns |-> tags
                      \o (IF digits THEN << "phone_number_present" >> ELSE << >>)
                      \o (IF link THEN << "link_present" >> ELSE << >>)
                      \o (IF email THEN << "email_present" >> ELSE << >>)]

\* the scorer's result for the texts of the model, computed once
IntentTable == [t \in KnownTexts |-> detect_scam_intent(t)]

ScamIntent(text) == IntentTable[text]

\* ----------------------------------------------------- persona selector

\* a selector that looks for a prize before it looks for an authority
select_prize_first(scam_patterns) ==
    LET patterns_str == Lower(JoinWith(scam_patterns, " "))
    IN  IF ContainsAny(patterns_str, {"link", "download", "app", "update", "install"})
        THEN "YOUNG_NAIVE"
        ELSE IF ContainsAny(patterns_str,
                     {"won", "prize", "lottery", "reward", "winner", "congratulations"})
        THEN "EXCITED_SKEPTICAL"
        ELSE IF ContainsAny(patterns_str,
                     {"government", "police", "tax", "pension", "rbi", "customs", "arrest"})
        THEN "ELDERLY_CONFUSED"
        ELSE "WORRIED_PARENT"

select_persona(scam_patterns) ==
    LET patterns_str == Lower(JoinWith(scam_patterns, " "))
    IN  IF ContainsAny(patterns_str, {"link", "download", "app", "update", "install"})
        THEN "YOUNG_NAIVE"
        ELSE IF ContainsAny(patterns_str,
                     {"government", "police", "tax", "pension", "rbi", "customs", "arrest"})
        THEN "ELDERLY_CONFUSED"
        ELSE IF ContainsAny(patterns_str,
                     {"won", "prize", "lottery", "reward", "winner", "congratulations"})
        THEN "EXCITED_SKEPTICAL"
        ELSE "WORRIED_PARENT"

\* the selector's result for the tag lists of the texts of the model, computed once
PersonaTable == [p \in {IntentTable[t].patterns : t \in KnownTexts} |-> select_persona(p)]

SelectedPersona(scam_patterns) == PersonaTable[scam_patterns]

\* ------------------------------------------------ intelligence extractor

\* ExtractedIntelligence()
EmptyIntelligence ==
    [bankAccounts |-> << >>, upiIds |-> << >>, phishingLinks |-> << >>,
     phoneNumbers |-> << >>, suspiciousKeywords |-> << >>]

IntelligenceItem(value, confidence, extractedAt, extractionMethod) ==
    [value |-> value, confidence |-> confidence,
     extractedAt |-> extractedAt, extractionMethod |-> extractionMethod]

\* any(item.value == v for item in items)
HasValue(items, v) == \E i \in 1..Len(items) : items[i].value = v

\* \b between position i - 1 and position i of s
WordBoundaryBefore(s, i) ==
    LET left == i > 1 /\ IsWordChar(CharAt(s, i - 1))
        right == i <= Len(s) /\ IsWordChar(CharAt(s, i))
    IN  left # right

BankMinDigits == 9

BankMaxDigits == 18

RECURSIVE FindBankAccountsFrom(_, _)
FindBankAccountsFrom(text, i) ==
    IF i > Len(text) THEN << >>
    ELSE LET e == DigitRunEnd(text, i)
             n == e - i + 1
         IN  IF /\ n >= BankMinDigits
                /\ n <= BankMaxDigits
                /\ WordBoundaryBefore(text, i)
                /\ WordBoundaryBefore(text, e + 1)
             THEN << SubSeq(text, i, e) >> \o FindBankAccountsFrom(text, e + 1)
             ELSE FindBankAccountsFrom(text, i + 1)

\* re.findall(r'\b(\d{9,18})\b', text)
FindBankAccounts(text) == FindBankAccountsFrom(text, 1)

TypicalMinDigits == 11

TypicalMaxDigits == 16

BankConfidence(acc) ==
    IF TypicalMinDigits <= Len(acc) /\ Len(acc) <= TypicalMaxDigits THEN 90 ELSE 60

\* [\w.-]
IsHandleChar(c) == IsWordChar(c) \/ c \in {".", "-"}

RECURSIVE HandleRunEnd(_, _)
HandleRunEnd(s, i) ==
    IF i <= Len(s) /\ IsHandleChar(CharAt(s, i)) THEN HandleRunEnd(s, i + 1) ELSE i - 1

RECURSIVE FindUpiIdsFrom(_, _)
FindUpiIdsFrom(text, i) ==
    IF i > Len(text) THEN << >>
    ELSE LET e == HandleRunEnd(text, i)
             e2 == HandleRunEnd(text, e + 2)
         IN  IF e < i THEN FindUpiIdsFrom(text, i + 1)
             ELSE IF e + 2 <= Len(text) /\ CharAt(text, e + 1) = "@" /\ e2 >= e + 2
             THEN << SubSeq(text, i, e2) >> \o FindUpiIdsFrom(text, e2 + 1)
             ELSE FindUpiIdsFrom(text, e + 1)

\* re.findall(r'([\w.-]+@[\w.-]+)', text)
FindUpiIds(text) == FindUpiIdsFrom(text, 1)

email_domains == <<"gmail", "yahoo", "hotmail", "outlook", "mail", "protonmail", "icloud">>

upi_patterns ==
    <<"paytm", "phonepe", "gpay", "upi", "okaxis", "ybl", "okhdfcbank", "oksbi", "axl",
      "fakebank", "bank">>

\* upi_patterns[:9]
KnownProviderCount == 9

Range(q) == {q[i] : i \in 1..Len(q)}

\* upi_lower.split('@')[1]
DomainPart(upi_lower) ==
    LET at == CHOOSE i \in 1..Len(upi_lower) :
                  /\ CharAt(upi_lower, i) = "@"
                  /\ \A j \in 1..(i - 1) : CharAt(upi_lower, j) # "@"
        rest == SubSeq(upi_lower, at + 1, Len(upi_lower))
    IN  IF \E k \in 1..Len(rest) : CharAt(rest, k) = "@"
        THEN SubSeq(rest, 1, (CHOOSE k \in 1..Len(rest) :
                                  /\ CharAt(rest, k) = "@"
                                  /\ \A j \in 1..(k - 1) : CharAt(rest, j) # "@") - 1)
        ELSE rest

IsEmail(upi_lower) ==
    /\ ContainsAny(upi_lower, Range(email_domains))
    /\ Contains(DomainPart(upi_lower), ".")

IsUpi(upi_lower) ==
    ContainsAny(upi_lower, Range(upi_patterns)) \/ ~IsEmail(upi_lower)

UpiConfidence(upi_lower) ==
    IF ContainsAny(upi_lower, Range(SubSeq(upi_patterns, 1, KnownProviderCount)))
    THEN 95 ELSE 80

PhoneMinDigits == 10

PhoneMaxDigits == 13

RECURSIVE FindPhoneNumbersFrom(_, _)
FindPhoneNumbersFrom(text, i) ==
    IF i > Len(text) THEN << >>
    ELSE LET first == IF CharAt(text, i) = "+" THEN i + 1 ELSE i
             n == Min(DigitRunEnd(text, first) - first + 1, PhoneMaxDigits)
         IN  IF n >= PhoneMinDigits
             THEN << SubSeq(text, i, first + n - 1) >> \o FindPhoneNumbersFrom(text, first + n)
             ELSE FindPhoneNumbersFrom(text, i + 1)

\* re.findall(r'(\+?\d{10,13})', text)
FindPhoneNumbers(text) == FindPhoneNumbersFrom(text, 1)

PhoneConfidence(phone) == IF StartsWithAt(phone, 1, "+") THEN 90 ELSE 70

\* [^\s<>"']
IsLinkChar(c) == ~IsSpace(c) /\ c \notin {"<", ">", "\"", "'"}

RECURSIVE LinkRunEnd(_, _)
LinkRunEnd(s, i) ==
    IF i <= Len(s) /\ IsLinkChar(CharAt(s, i)) THEN LinkRunEnd(s, i + 1) ELSE i - 1

RECURSIVE FindLinksFrom(_, _)
FindLinksFrom(text, i) ==
    IF i > Len(text) THEN << >>
    ELSE LET body == IF StartsWithAt(text, i, "http://") THEN i + 7
                     ELSE IF StartsWithAt(text, i, "https://") THEN i + 8
                     ELSE 0
             e == LinkRunEnd(text, body)
         IN  IF body > 0 /\ e >= body
             THEN << SubSeq(text, i, e) >> \o FindLinksFrom(text, e + 1)
             ELSE FindLinksFrom(text, i + 1)

\* re.findall(r'(http[s]?://[^\s<>"\']+)', text)
FindLinks(text) == FindLinksFrom(text, 1)

LinkConfidence == 100

RECURSIVE KeywordHits(_, _)
\* the keywords found in the text, in the order the two nested loops visit them
KeywordHits(text_lower, i) ==
    IF i > Len(PatternPairs) THEN << >>
    ELSE (IF Contains(text_lower, PatternPairs[i].keyword)
          THEN << PatternPairs[i].keyword >> ELSE << >>) \o KeywordHits(text_lower, i + 1)

\* a token@token candidate with the verdict and the confidence the loop computes for it
UpiCandidate(upi) ==
    [value |-> upi, is_upi |-> IsUpi(Lower(upi)), confidence |-> UpiConfidence(Lower(upi))]

\* what the regular expressions and the keyword loop find in a text
ScanText(text) ==
    LET upi_ids == FindUpiIds(text)
    IN  [bank_accounts |-> FindBankAccounts(text),
         upi_ids |-> [i \in 1..Len(upi_ids) |-> UpiCandidate(upi_ids[i])],
         phone_numbers |-> FindPhoneNumbers(text),
         links |-> FindLinks(text),
         keywords |-> KeywordHits(Lower(text), 1)]

\* ScanText for the texts of the model, computed once
ScanTable == [t \in KnownTexts |-> ScanText(t)]

Found(text) == ScanTable[text]

\* an append without the look at the items stored
AlwaysNew(items, v) == TRUE

\* the guard of each append: the value is not yet among the items stored
IsNewValue(items, v) == ~HasValue(items, v)

RECURSIVE AppendBankAccounts(_, _, _)
AppendBankAccounts(items, found, timestamp) ==
    IF Len(found) = 0 THEN items
    ELSE AppendBankAccounts(
             IF IsNewValue(items, Head(found))
             THEN Append(items, IntelligenceItem(Head(found), BankConfidence(Head(found)),
                                                 timestamp, "regex_bank"))
             ELSE items,
             Tail(found), timestamp)

RECURSIVE AppendUpiIds(_, _, _)
AppendUpiIds(items, found, timestamp) ==
    IF Len(found) = 0 THEN items
    ELSE AppendUpiIds(
             IF Head(found).is_upi /\ IsNewValue(items, Head(found).value)
             THEN Append(items, IntelligenceItem(Head(found).value, Head(found).confidence,
                                                 timestamp, "regex_upi"))
             ELSE items,
             Tail(found), timestamp)

RECURSIVE AppendPhoneNumbers(_, _, _)
AppendPhoneNumbers(items, found, timestamp) ==
    IF Len(found) = 0 THEN items
    ELSE AppendPhoneNumbers(
             IF IsNewValue(items, Head(found))
             THEN Append(items, IntelligenceItem(Head(found), PhoneConfidence(Head(found)),
                                                 timestamp, "regex_phone"))
             ELSE items,
             Tail(found), timestamp)

RECURSIVE AppendLinks(_, _, _)
AppendLinks(items, found, timestamp) ==
    IF Len(found) = 0 THEN items
    ELSE AppendLinks(
             IF IsNewValue(items, Head(found))
             THEN Append(items, IntelligenceItem(Head(found), LinkConfidence,
                                                 timestamp, "regex_url"))
             ELSE items,
             Tail(found), timestamp)

\* a keyword guard that takes every keyword for a new one
EveryKeywordNew(keywords, keyword) == TRUE

\* keyword not in existing.suspiciousKeywords
IsNewKeyword(keywords, keyword) == ~SeqContains(keywords, keyword)

RECURSIVE AppendKeywords(_, _)
AppendKeywords(keywords, found) ==
    IF Len(found) = 0 THEN keywords
    ELSE AppendKeywords(
             IF IsNewKeyword(keywords, Head(found)) THEN Append(keywords, Head(found))
             ELSE keywords,
             Tail(found))

\* the five loops of extract_intelligence, over what the scan of the text found
AddFound(found, existing, timestamp) ==
    [bankAccounts |-> AppendBankAccounts(existing.bankAccounts, found.bank_accounts,
                                         timestamp),
     upiIds |-> AppendUpiIds(existing.upiIds, found.upi_ids, timestamp),
     phoneNumbers |-> AppendPhoneNumbers(existing.phoneNumbers, found.phone_numbers,
                                         timestamp),
     phishingLinks |-> AppendLinks(existing.phishingLinks, found.links, timestamp),
     suspiciousKeywords |-> AppendKeywords(existing.suspiciousKeywords, found.keywords)]

\* an extraction that returns what the text holds and drops what was accumulated
extract_afresh(text, existing, timestamp) ==
    AddFound(Found(text), EmptyIntelligence, timestamp)

\* extract_intelligence: the scan of the text, then the appends
extract_intelligence(text, existing, timestamp) ==
    AddFound(Found(text), existing, timestamp)

\* ------------------------------------------------------ stage classifier

HookMaxCount == 2

TrustMaxCount == 4

\* the any(word in text_lower ...) tests of detect_scam_stage
StageCues(new_message) ==
    LET text_lower == Lower(new_message)
    IN  [alarm |-> ContainsAny(text_lower, {"urgent", "blocked", "suspended", "expired",
                                            "alert", "warning", "attention"}),
         authority |-> ContainsAny(text_lower, {"bank", "government", "police", "officer",
                                                "department", "official", "rbi",
                                                "income tax"}),
         payment |-> ContainsAny(text_lower, {"pay", "send", "transfer", "amount", "fee",
                                              "penalty", "fine", "deposit", "rupees", "rs"}),
         credential |-> ContainsAny(text_lower, {"share", "provide", "enter", "otp",
                                                 "password", "cvv", "pin", "card number",
                                                 "details"}),
         link |-> ContainsAny(text_lower, {"http", "link", ".com", "click"})]

\* StageCues for the texts of the model, computed once
CueTable == [t \in KnownTexts |-> StageCues(t)]

Cues(new_message) == CueTable[new_message]

\* a chain that tests for a link before it tests for a payment word
StageOfLinkFirst(message_count, intelligence, cues) ==
        IF message_count <= HookMaxCount /\ cues.alarm
        THEN "HOOK"
        ELSE IF cues.authority /\ message_count <= TrustMaxCount
        THEN "TRUST_BUILDING"
        ELSE IF cues.link
        THEN "LINK_DROP"
        ELSE IF cues.payment
        THEN "PAYMENT_ASK"
        ELSE IF cues.credential
        THEN "CREDENTIAL_REQUEST"
        ELSE IF Len(intelligence.bankAccounts) > 0 \/ Len(intelligence.upiIds) > 0
        THEN "CLOSING"
        ELSE "EXPLORATORY"

\* the chain of tests of detect_scam_stage, over the cues of the message
StageOf(message_count, intelligence, cues) ==
        IF message_count <= HookMaxCount /\ cues.alarm
        THEN "HOOK"
        ELSE IF cues.authority /\ message_count <= TrustMaxCount
        THEN "TRUST_BUILDING"
        ELSE IF cues.payment
        THEN "PAYMENT_ASK"
        ELSE IF cues.credential
        THEN "CREDENTIAL_REQUEST"
        ELSE IF cues.link
        THEN "LINK_DROP"
        ELSE IF Len(intelligence.bankAccounts) > 0 \/ Len(intelligence.upiIds) > 0
        THEN "CLOSING"
        ELSE "EXPLORATORY"

detect_scam_stage(message_count, intelligence, new_message) ==
    StageOf(message_count, intelligence, Cues(new_message))

\* ------------------------------------------------------- reply generator

EarlyMaxCount == 2

MidMaxCount == 5

get_conversation_stage(message_count) ==
    IF message_count <= EarlyMaxCount THEN "early"
    ELSE IF message_count <= MidMaxCount THEN "mid"
    ELSE "late"

\* the list random.choice draws the fallback reply from
get_smart_fallback(message_count, intelligence) ==
    LET stage == get_conversation_stage(message_count)
    IN  IF stage = "early"
        THEN << "What?? My account has a problem? Why is this hapening to me?",
                "Oh no I'm so worried now. Who am I speaking with please?",
                "I don't understand sir, what is wrong with my account?",
                "This is very scary for me. Please explain what happened?" >>
        ELSE IF stage = "mid"
        THEN IF Len(intelligence.bankAccounts) = 0 /\ Len(intelligence.upiIds) = 0
             THEN << "Ok I want to fix this. Where should I send the payment sir?",
                     "Please tell me the account number or UPI to send money?",
                     "I have money ready. What are the payment detials?",
                     "How do I pay? Give me your paytm or bank account please." >>
             ELSE IF Len(intelligence.phoneNumbers) = 0
             THEN << "Can you give me a number to call back? I'm very worried.",
                     "Should I call you on some number? Please share contact.",
                     "What number should I reach you at if there is any problem?" >>
             ELSE IF Len(intelligence.phishingLinks) = 0
             THEN << "Is there a website where I can verify this? Please send link.",
                     "Can you send me the official link to check my account?",
                     "Which website should I go to? I don't know technology well." >>
             ELSE << "Ok I understand now. What is the next step please?",
                     "I will do as you say. Please tell me the procedure." >>
        ELSE IF Len(intelligence.upiIds) > 0 \/ Len(intelligence.bankAccounts) > 0
             THEN << "Just to confirm, I send the money to the same number you said?",
                     "Ok I am ready to pay. Please confirm the account details again?",
                     "I'm at the bank now. Please repeat the account number once more?" >>
             ELSE << "I want to resolve this today itself. Tell me payment method please?",
                     "I have arranged the money. Where exactly should I send it?",
                     "I'm ready to cooperate fully. Please give me the details to pay." >>

RECURSIVE LStrip(_, _)
\* s.lstrip(chars), chars a set of characters
LStrip(s, chars) ==
    IF Len(s) > 0 /\ CharAt(s, 1) \in chars THEN LStrip(SubSeq(s, 2, Len(s)), chars) ELSE s

RECURSIVE RStrip(_, _)
RStrip(s, chars) ==
    IF Len(s) > 0 /\ CharAt(s, Len(s)) \in chars
    THEN RStrip(SubSeq(s, 1, Len(s) - 1), chars) ELSE s

StripChars(s, chars) == RStrip(LStrip(s, chars), chars)

Whitespace == {" ", "\t", "\n", "\r", "\f"}

\* s.strip()
Strip(s) == StripChars(s, Whitespace)

RECURSIVE RemoveChar(_, _)
\* s.replace(c, '')
RemoveChar(s, c) ==
    IF Len(s) = 0 THEN ""
    ELSE (IF CharAt(s, 1) = c THEN "" ELSE CharAt(s, 1)) \o RemoveChar(SubSeq(s, 2, Len(s)), c)

RECURSIVE RFind(_, _, _)
\* the 1-based position of the last c in s[1..i], 0 when there is none
RFind(s, c, i) ==
    IF i = 0 THEN 0 ELSE IF CharAt(s, i) = c THEN i ELSE RFind(s, c, i - 1)

prefixes_to_remove ==
    << "Victim:", "victim:", "Reply:", "reply:", "Response:", "response:", "User:", "user:",
       "Here's my response:", "Here is my response:" >>

RECURSIVE RemovePrefixes(_, _)
RemovePrefixes(reply, i) ==
    IF i > Len(prefixes_to_remove) THEN reply
    ELSE RemovePrefixes(
             IF StartsWithAt(reply, 1, prefixes_to_remove[i])
             THEN Strip(SubSeq(reply, Len(prefixes_to_remove[i]) + 1, Len(reply)))
             ELSE reply,
             i + 1)

ReplyLimit == 200

CutoffFloor == 100

\* reply[:200], cut at the last '.' or '?' when that lies beyond character 100
LimitReply(reply) ==
    IF Len(reply) <= ReplyLimit THEN reply
    ELSE LET dot == RFind(reply, ".", ReplyLimit)
             qm == RFind(reply, "?", ReplyLimit)
         IN  IF dot - 1 > CutoffFloor THEN SubSeq(reply, 1, dot)
             ELSE IF qm - 1 > CutoffFloor THEN SubSeq(reply, 1, qm)
             ELSE SubSeq(reply, 1, ReplyLimit)

clean_llm_response(reply) ==
    LET unprefixed == RemovePrefixes(reply, 1)
        unquoted == Strip(StripChars(StripChars(unprefixed, {"\""}), {"'"}))
        plain == RemoveChar(unquoted, "*")
    IN  Strip(LimitReply(plain))

\* clean_llm_response for the contents of the model, computed once
CleanTable == [c \in LLMContents |-> clean_llm_response(c)]

CleanReply(content) == CleanTable[content]

\* ----------------------------------------------------------- finalization

FinalizeAlways == 15

FinalizeWithIntel == 8

\* a predicate that takes one phone number for critical intelligence
FinalizeOnAnyPhone(message_count, intel) ==
    \/ message_count >= FinalizeAlways
    \/ (message_count >= FinalizeWithIntel /\ Len(intel.phoneNumbers) > 0)

should_finalize_session(message_count, intel) ==
    LET has_critical_intel ==
            \/ Len(intel.bankAccounts) > 0
            \/ Len(intel.upiIds) > 0
            \/ Len(intel.phishingLinks) > 0
            \/ Len(intel.phoneNumbers) > 1
    IN  \/ message_count >= FinalizeAlways
        \/ (message_count >= FinalizeWithIntel /\ has_critical_intel)

\* ------------------------------------------------------------- database

\* a dict or table without the key k, or with k bound to v
Put(f, k, v) == [x \in DOMAIN f \cup {k} |-> IF x = k THEN v ELSE f[x]]

\* a value that is not there: a key the dict does not hold, a NULL column
Absent == "absent"

\* a dict entry that may be missing: << >> when the key is not set, << v >> when it is
Unset == << >>

SetTo(v) == << v >>

\* session_data.get('scam_confidence', default)
GetConfidence(session_data, default) ==
    IF session_data.scam_confidence = Unset THEN default ELSE session_data.scam_confidence[1]

\* the tables after init_db(); writable: the database file takes writes (it stops
\* when the disk is full or the file is locked, and every execute then raises)
EmptyDb ==
    [sessions |-> << >>, messages |-> << >>, intelligence |-> << >>,
     scammers |-> << >>, network_links |-> << >>, writable |-> TRUE]

SessionRow(session_data, status, ended_at) ==
    [persona |-> session_data.persona,
     final_stage |-> session_data.current_stage,
     message_count |-> session_data.message_count,
     scam_detected |-> session_data.scam_detected,
     scam_confidence |-> GetConfidence(session_data, 0),
     status |-> status,
     ended_at |-> ended_at]

\* INSERT ... ON CONFLICT(session_id) DO UPDATE: ended_at is not among the updated columns
save_session(table, session_id, session_data) ==
    Put(table, session_id,
        SessionRow(session_data, "active",
                   IF session_id \in DOMAIN table THEN table[session_id].ended_at ELSE Absent))

\* UPDATE sessions SET ... status = 'completed' WHERE session_id = ?
end_session(table, session_id, session_data, now) ==
    IF session_id \in DOMAIN table
    THEN Put(table, session_id, SessionRow(session_data, "completed", now))
    ELSE table

save_message(table, session_id, sender, text) ==
    Append(table, [session_id |-> session_id, sender |-> sender, message_text |-> text])

\* session_count = session_count + 1
NextSessionCount(session_count) == session_count + 1

\* the intelligence table has no UNIQUE constraint, so INSERT OR IGNORE always inserts;
\* the scammers row of the value is created, or its session_count raised
save_intelligence(d, session_id, intel_type, item, now) ==
    LET row == [session_id |-> session_id, intel_type |-> intel_type,
                value |-> item.value, confidence |-> item.confidence,
                extraction_method |-> item.extractionMethod]
        profile ==
            IF item.value \in DOMAIN d.scammers
            THEN [d.scammers[item.value] EXCEPT
                     !.last_seen = now,
                     !.session_count = NextSessionCount(d.scammers[item.value].session_count)]
            ELSE [identifier_type |-> intel_type, first_seen |-> now, last_seen |-> now,
                  session_count |-> 1]
    IN  [d EXCEPT !.intelligence = Append(d.intelligence, row),
                  !.scammers = Put(d.scammers, item.value, profile)]

RECURSIVE SaveItems(_, _, _, _, _)
\* for item in items: db.save_intelligence(session_id, intel_type, ...)
SaveItems(d, session_id, intel_type, items, now) ==
    IF Len(items) = 0 THEN d
    ELSE SaveItems(save_intelligence(d, session_id, intel_type, Head(items), now),
                   session_id, intel_type, Tail(items), now)

\* the four loops that follow the extraction: every item of the session is saved again
SaveAllIntelligence(d, session_id, intel, now) ==
    LET d1 == SaveItems(d, session_id, "bank_account", intel.bankAccounts, now)
        d2 == SaveItems(d1, session_id, "upi_id", intel.upiIds, now)
        d3 == SaveItems(d2, session_id, "phone", intel.phoneNumbers, now)
    IN  SaveItems(d3, session_id, "link", intel.phishingLinks, now)

Values(items) == [i \in 1..Len(items) |-> items[i].value]

\* all_items, in the order the handler collects them
AllItemValues(intel) ==
    Values(intel.bankAccounts) \o Values(intel.upiIds)
    \o Values(intel.phoneNumbers) \o Values(intel.phishingLinks)

\* a row that records the session id in place of the second identifier
LinkToSession(source, target, session_id) ==
    [source_identifier |-> source, target_identifier |-> session_id,
     link_type |-> "same_session", session_id |-> session_id]

\* the row of one INSERT of build_network_links
NetworkLink(source, target, session_id) ==
    [source_identifier |-> source, target_identifier |-> target,
     link_type |-> "same_session", session_id |-> session_id]

\* INSERT OR IGNORE under UNIQUE(source_identifier, target_identifier, session_id)
InsertLink(table, link) ==
    IF \E i \in 1..Len(table) :
           /\ table[i].source_identifier = link.source_identifier
           /\ table[i].target_identifier = link.target_identifier
           /\ table[i].session_id = link.session_id
    THEN table
    ELSE Append(table, link)

RECURSIVE BuildLinksFrom(_, _, _, _, _)
\* for i in range(len(identifiers)): for j in range(i + 1, len(identifiers))
BuildLinksFrom(table, session_id, identifiers, i, j) ==
    IF i > Len(identifiers) THEN table
    ELSE IF j > Len(identifiers)
    THEN BuildLinksFrom(table, session_id, identifiers, i + 1, i + 2)
    ELSE BuildLinksFrom(
             InsertLink(table, NetworkLink(identifiers[i], identifiers[j], session_id)),
             session_id, identifiers, i, j + 1)

build_network_links(table, session_id, identifiers) ==
    BuildLinksFrom(table, session_id, identifiers, 1, 2)

\* ------------------------------------------------------ session state

VARIABLES
    sessions,        \* the in-memory dict: session id -> session_data
    db,              \* the SQLite tables
    requests,        \* the coroutines of the two handlers that are suspended
    now,             \* the wall clock, in ticks
    groq_api_key,    \* whether GROQ_API_KEY is set
    notifications,   \* what the evaluation endpoint was sent, with its answer
    last_response,   \* the response returned last
    accepted,        \* session id -> inbound messages the handlers took in
    initialized,     \* session id -> times the session dict was created
    persona_runs,    \* session id -> calls of select_persona
    finalizations    \* session id -> times the finalization block ran

vars == << sessions, db, requests, now, groq_api_key, notifications, last_response,
           accepted, initialized, persona_runs, finalizations >>

\* the dict a handler stores for a session id it has not seen
NewSession(created_at) ==
    [created_at |-> created_at,
     conversation_history |-> << >>,
     intelligence |-> EmptyIntelligence,
     scam_detected |-> FALSE,
     message_count |-> 0,
     agent_notes |-> "",
     callback_sent |-> FALSE,
     persona |-> "WORRIED_PARENT",
     current_stage |-> "EXPLORATORY",
     typing_timestamps |-> << >>,
     scam_confidence |-> Unset,
     scam_patterns |-> Unset,
     callback_status |-> Absent,
     callback_error |-> Absent]

\* a lookup that takes every session id for a new one
AlwaysUnseen(ss, session_id) == TRUE

\* session_id not in sessions
IsUnseen(ss, session_id) == session_id \notin DOMAIN ss

\* session_data = sessions[session_id], created first when the id is unseen
GetOrCreate(ss, session_id, created_at) ==
    IF IsUnseen(ss, session_id) THEN NewSession(created_at) ELSE ss[session_id]

\* one dict object shared by all the session ids
StoreEverywhere(ss, session_id, session_data) ==
    [k \in DOMAIN ss \cup {session_id} |-> session_data]

\* the handlers mutate sessions[session_id] in place: only that entry changes
StoreSession(ss, session_id, session_data) == Put(ss, session_id, session_data)

\* a count that is raised twice for one message
CountTwice(message_count) == message_count + 1 + 1

\* session_data['message_count'] += 1
CountMessage(message_count) == message_count + 1

AppendMessage(session_data, sender, text, timestamp) ==
    [session_data EXCEPT
        !.conversation_history = Append(@, [sender |-> sender, text |-> text,
                                            timestamp |-> timestamp]),
        !.message_count = CountMessage(@)]

\* f"{confidence:.2f}" of a confidence in hundredths
ConfidenceText(confidence) ==
    CharAt(Digits, (confidence \div 100) + 1) \o "."
    \o CharAt(Digits, ((confidence \div 10) % 10) + 1) \o CharAt(Digits, (confidence % 10) + 1)

\* a test that holds on every message, not on the first only
IsAnyMessage(session_data) == session_data.message_count >= 1

\* session_data['message_count'] == 1
IsFirstMessage(session_data) == session_data.message_count = 1

\* the first-message block of honeypot_conversation
StoreDetection(session_data, d) ==
    [session_data EXCEPT
        !.scam_detected = d.is_scam,
        !.scam_confidence = SetTo(d.confidence),
        !.scam_patterns = SetTo(d.patterns),
        !.persona = SelectedPersona(d.patterns),
        !.agent_notes =
            IF d.is_scam
            THEN "Scam detected with " \o ConfidenceText(d.confidence)
                 \o " confidence. Patterns: " \o JoinWith(d.patterns, ", ")
            ELSE @]

DetectOnFirstMessage(session_data, text) == StoreDetection(session_data, ScamIntent(text))

\* an update that stores the confidence of every message
AlwaysRaise(stored, confidence_now) == TRUE

\* if confidence_now > session_data.get('scam_confidence', 0)
ShouldRaise(stored, confidence_now) == confidence_now > stored

\* the scam-detection step of simulate_conversation
DetectInSimulate(session_data, d) ==
    IF IsFirstMessage(session_data)
    THEN [session_data EXCEPT
             !.scam_detected = d.is_scam,
             !.scam_confidence = SetTo(d.confidence),
             !.scam_patterns = SetTo(d.patterns),
             !.persona = SelectedPersona(d.patterns)]
    ELSE IF ShouldRaise(GetConfidence(session_data, 0), d.confidence)
    THEN [session_data EXCEPT !.scam_confidence = SetTo(d.confidence)]
    ELSE session_data

\* ------------------------------------------------------- reply generation

\* how many entries of a fallback list random.choice is followed into
MaxChoices == 2

\* what one requests.post to the reply generator can end in
LLMFailures == {"429", "error_status", "timeout", "exception", "malformed_body"}

max_retries == 2

\* build_agent_prompt: the stage is classified and stored
ClassifyForPrompt(session_data, new_message) ==
    [session_data EXCEPT
        !.current_stage = detect_scam_stage(session_data.message_count,
                                            session_data.intelligence, new_message)]

\* the replies random.choice can draw for the session, the first MaxChoices of the list
FallbackReplies(session_data) ==
    LET choices == get_smart_fallback(session_data.message_count, session_data.intelligence)
    IN  Range(SubSeq(choices, 1, Min(Len(choices), MaxChoices)))

\* a loop that makes one attempt more than range(max_retries)
IsPastLastAttempt(attempt) == ~(attempt < max_retries)

\* the last attempt of range(max_retries)
IsLastAttempt(attempt) == ~(attempt < max_retries - 1)

IdleRequest ==
    [pc |-> "idle", endpoint |-> "", session_id |-> "", sender |-> "", text |-> "",
     attempt |-> 0, llm_calls |-> 0, reply |-> "", typing_start |-> 0, nlp |-> Absent]

LLMResults ==
    {[status |-> "200", content |-> c] : c \in LLMContents}
    \cup {[status |-> f, content |-> ""] : f \in LLMFailures}

\* a pass of the loop whose except clauses miss the error of a malformed body: the
\* coroutine ends with the exception and has no next state
AfterAttemptUncaught(req, session_data, llm) ==
    IF llm.status = "200"
    THEN {[req EXCEPT !.pc = "replied", !.reply = CleanReply(llm.content)]}
    ELSE IF llm.status = "malformed_body"
    THEN {}
    ELSE IF IsLastAttempt(req.attempt)
    THEN {[req EXCEPT !.pc = "replied", !.reply = f] : f \in FallbackReplies(session_data)}
    ELSE {[req EXCEPT !.pc = "backoff", !.attempt = @ + 1]}

\* one pass of the loop of generate_agent_response, after the request of attempt
\* req.attempt came back as llm: the coroutine has its reply, or sleeps before the
\* next attempt
AfterAttempt(req, session_data, llm) ==
    IF llm.status = "200"
    THEN {[req EXCEPT !.pc = "replied", !.reply = CleanReply(llm.content)]}
    ELSE IF IsLastAttempt(req.attempt)
    THEN {[req EXCEPT !.pc = "replied", !.reply = f] : f \in FallbackReplies(session_data)}
    ELSE {[req EXCEPT !.pc = "backoff", !.attempt = @ + 1]}

\* generate_agent_response up to its first suspension point: the session with the
\* stage build_agent_prompt stored, and the states the coroutine can be in
StageForReply(session_data, new_message) ==
    IF groq_api_key THEN ClassifyForPrompt(session_data, new_message) ELSE session_data

\* llms: the answers the reply generator can give
BeginGenerate(req, session_data, llms) ==
    IF ~groq_api_key
    THEN {[req EXCEPT !.pc = "replied", !.reply = f] : f \in FallbackReplies(session_data)}
    ELSE UNION {AfterAttempt([req EXCEPT !.llm_calls = @ + 1], session_data, llm) :
                    llm \in llms}

TotalAccepted == LET RECURSIVE Sum(_)
                     Sum(S) == IF S = {} THEN 0
                               ELSE LET k == CHOOSE x \in S : TRUE
                                    IN  accepted[k] + Sum(S \ {k})
                 IN  Sum(DOMAIN accepted)

Count(f, k) == IF k \in DOMAIN f THEN f[k] ELSE 0

Bump(f, k) == Put(f, k, Count(f, k) + 1)


\* ------------------------------------------------- /api/honeypot handler

\* the session lookup, the append to the history and the count of the message
TakeMessage(ss, session_id, sender, text, timestamp) ==
    AppendMessage(GetOrCreate(ss, session_id, timestamp), sender, text, timestamp)

\* if session_data['message_count'] == 1: the detection block
DetectIfFirst(session_data, text) ==
    IF IsFirstMessage(session_data) THEN DetectOnFirstMessage(session_data, text)
    ELSE session_data

\* an extraction step that reads the messages of every sender
ExtractAlways(session_data, sender, text, timestamp) ==
    [session_data EXCEPT !.intelligence = extract_intelligence(text, @, timestamp)]

\* if sender == "scammer": session_data['intelligence'] = extract_intelligence(...)
ExtractIfScammer(session_data, sender, text, timestamp) ==
    IF sender = "scammer"
    THEN [session_data EXCEPT !.intelligence = extract_intelligence(text, @, timestamp)]
    ELSE session_data

\* the rows honeypot_conversation writes before it generates the reply: taken is the
\* session after the count, extracted the session after the extraction
HoneypotWrites(d, session_id, sender, text, taken, extracted, timestamp) ==
    LET saved == [d EXCEPT !.sessions = save_session(@, session_id, taken),
                           !.messages = save_message(@, session_id, sender, text)]
    IN  IF sender = "scammer"
        THEN SaveAllIntelligence(saved, session_id, extracted.intelligence, timestamp)
        ELSE saved

HoneypotRequest(session_id, sender, text, timestamp) ==
    [IdleRequest EXCEPT !.pc = "received", !.endpoint = "honeypot",
                        !.session_id = session_id, !.sender = sender,
                        !.text = text, !.typing_start = timestamp]

\* the state honeypot_conversation leaves at its first suspension point: prepared is
\* the session with the stage build_agent_prompt stored
HoneypotSuspend(session_id, sender, text, llms, taken, extracted, prepared) ==
    /\ sessions' = StoreSession(sessions, session_id, prepared)
    /\ db' = HoneypotWrites(db, session_id, sender, text, taken, extracted, now)
    /\ \E q \in BeginGenerate(HoneypotRequest(session_id, sender, text, now), prepared, llms) :
           requests' = requests \cup {q}
    /\ accepted' = Bump(accepted, session_id)
    /\ initialized' = IF IsUnseen(sessions, session_id) THEN Bump(initialized, session_id)
                      ELSE initialized
    /\ persona_runs' = IF IsFirstMessage(taken) THEN Bump(persona_runs, session_id)
                       ELSE persona_runs

HoneypotPrepare(session_id, sender, text, llms, taken, extracted) ==
    HoneypotSuspend(session_id, sender, text, llms, taken, extracted,
                    StageForReply(extracted, text))

HoneypotProcess(session_id, sender, text, llms, taken) ==
    HoneypotPrepare(session_id, sender, text, llms, taken,
                    ExtractIfScammer(DetectIfFirst(taken, text), sender, text, now))

\* honeypot_conversation from the session lookup to the first suspension point
HoneypotReceive(session_id, sender, text, llms) ==
    /\ HoneypotProcess(session_id, sender, text, llms,
                       TakeMessage(sessions, session_id, sender, text, now))
    /\ now' = now + 1
    /\ UNCHANGED << groq_api_key, notifications, last_response, finalizations >>

\* after asyncio.sleep in the retry loop: the next attempt
HoneypotRetry(req, llm) ==
    /\ req.pc = "backoff"
    /\ req.endpoint = "honeypot"
    /\ \E q \in AfterAttempt([req EXCEPT !.llm_calls = @ + 1],
                             sessions[req.session_id], llm) :
           requests' = (requests \ {req}) \cup {q}
    /\ UNCHANGED << sessions, db, now, groq_api_key, notifications, last_response,
                    accepted, initialized, persona_runs, finalizations >>

\* send_final_callback: the answer of the evaluation endpoint is cb
CallbackOutcomes == {"200", "500", "exception"}

\* a notifier that marks the session as notified whatever the sink answers
MarkSentAlways(session_data, cb) ==
    [session_data EXCEPT !.callback_sent = TRUE, !.callback_status = cb]

send_final_callback(session_data, cb) ==
    IF cb = "exception"
    THEN [session_data EXCEPT !.callback_sent = FALSE, !.callback_error = "exception"]
    ELSE [session_data EXCEPT !.callback_sent = TRUE, !.callback_status = cb]

RECURSIVE IntText(_)
\* str(n) of a natural number
IntText(n) ==
    IF n < 10 THEN CharAt(Digits, n + 1)
    ELSE IntText(n \div 10) \o CharAt(Digits, (n % 10) + 1)

\* intel.suspiciousKeywords[:20]
KeywordLimit == 20

\* enhanced_notes of send_final_callback
EnhancedNotes(session_data) ==
    session_data.agent_notes \o ". Persona: " \o session_data.persona
    \o ". Final Stage: " \o session_data.current_stage
    \o ". Extracted intel: " \o IntText(Len(session_data.intelligence.bankAccounts))
    \o " banks, " \o IntText(Len(session_data.intelligence.upiIds))
    \o " UPIs, " \o IntText(Len(session_data.intelligence.phoneNumbers))
    \o " phones, " \o IntText(Len(session_data.intelligence.phishingLinks)) \o " links."

\* the payload send_final_callback posts
FinalPayload(session_id, session_data) ==
    [sessionId |-> session_id,
     scamDetected |-> TRUE,
     totalMessagesExchanged |-> session_data.message_count,
     extractedIntelligence |->
         [bankAccounts |-> Values(session_data.intelligence.bankAccounts),
          upiIds |-> Values(session_data.intelligence.upiIds),
          phishingLinks |-> Values(session_data.intelligence.phishingLinks),
          phoneNumbers |-> Values(session_data.intelligence.phoneNumbers),
          suspiciousKeywords |->
              SubSeq(session_data.intelligence.suspiciousKeywords, 1,
                     Min(Len(session_data.intelligence.suspiciousKeywords), KeywordLimit))],
     agentNotes |-> EnhancedNotes(session_data)]

\* if session_data['scam_detected'] and not session_data['callback_sent']:
\*     if should_finalize_session(session_data):
MustFinalize(session_data) ==
    /\ session_data.scam_detected
    /\ ~session_data.callback_sent
    /\ should_finalize_session(session_data.message_count, session_data.intelligence)

\* honeypot_conversation after simulate_typing_delay, to its return
HoneypotFinish(req, cb) ==
    /\ req.pc = "replied"
    /\ req.endpoint = "honeypot"
    /\ LET session_id == req.session_id
           s0 == sessions[session_id]
           s1 == [s0 EXCEPT
                     !.typing_timestamps =
                         Append(@, [message_num |-> s0.message_count,
                                    typing_started |-> req.typing_start,
                                    reply_sent |-> now]),
                     !.conversation_history =
                         Append(@, [sender |-> "user", text |-> req.reply,
                                    timestamp |-> now])]
           final == MustFinalize(s1)
           s2 == IF final THEN send_final_callback(s1, cb) ELSE s1
       IN  /\ sessions' = StoreSession(sessions, session_id, s2)
           /\ notifications' =
                  IF final
                  THEN Append(notifications, [payload |-> FinalPayload(session_id, s1),
                                              answer |-> cb])
                  ELSE notifications
           /\ db' = IF final
                    THEN [db EXCEPT
                             !.network_links =
                                 build_network_links(@, session_id,
                                                     AllItemValues(s2.intelligence)),
                             !.sessions = end_session(@, session_id, s2, now)]
                    ELSE db
           /\ finalizations' = IF final THEN Bump(finalizations, session_id)
                               ELSE finalizations
           /\ last_response' = [endpoint |-> "honeypot", session_id |-> session_id,
                                status |-> "success", reply |-> req.reply,
                                llm_calls |-> req.llm_calls, nlp |-> Absent]
    /\ requests' = requests \ {req}
    /\ UNCHANGED << now, groq_api_key, accepted, initialized, persona_runs >>

\* the answer of the server to a request whose handler raised
ErrorResponse(endpoint, session_id) ==
    [endpoint |-> endpoint, session_id |-> session_id, status |-> "error",
     reply |-> Absent, llm_calls |-> 0, nlp |-> Absent]

\* honeypot_conversation when a write it makes before the reply raises: the database
\* functions have try/finally and no except, and the handler has no try, so the
\* sqlite3 error ends the request. failing_write is the first call that raises; the
\* session dict keeps what the handler did to it before
HoneypotReceiveFault(session_id, sender, text, failing_write) ==
    LET taken == TakeMessage(sessions, session_id, sender, text, now)
        at_intelligence == failing_write = "save_intelligence"
    IN  /\ db.writable \/ failing_write = "save_session"
        /\ at_intelligence =>
               /\ sender = "scammer"
               /\ AllItemValues(extract_intelligence(text, taken.intelligence, now)) # << >>
        /\ sessions' =
               StoreSession(sessions, session_id,
                            IF at_intelligence
                            THEN ExtractIfScammer(DetectIfFirst(taken, text), sender, text, now)
                            ELSE taken)
        /\ db' = [db EXCEPT
                     !.writable = FALSE,
                     !.sessions = IF failing_write = "save_session" THEN @
                                  ELSE save_session(@, session_id, taken),
                     !.messages = IF at_intelligence
                                  THEN save_message(@, session_id, sender, text)
                                  ELSE @]
        /\ accepted' = Bump(accepted, session_id)
        /\ initialized' = IF IsUnseen(sessions, session_id)
                          THEN Bump(initialized, session_id) ELSE initialized
        /\ persona_runs' = IF at_intelligence /\ IsFirstMessage(taken)
                           THEN Bump(persona_runs, session_id) ELSE persona_runs
        /\ last_response' = ErrorResponse("honeypot", session_id)
        /\ now' = now + 1
        /\ UNCHANGED << requests, groq_api_key, notifications, finalizations >>

\* honeypot_conversation when a write of its finalization block raises: the reply is
\* in the history and the notification is sent, the request ends with the error
HoneypotFinishFault(req, cb, failing_write) ==
    /\ req.pc = "replied"
    /\ req.endpoint = "honeypot"
    /\ db.writable
    /\ LET session_id == req.session_id
           s0 == sessions[session_id]
           s1 == [s0 EXCEPT
                     !.typing_timestamps =
                         Append(@, [message_num |-> s0.message_count,
                                    typing_started |-> req.typing_start,
                                    reply_sent |-> now]),
                     !.conversation_history =
                         Append(@, [sender |-> "user", text |-> req.reply,
                                    timestamp |-> now])]
       IN  /\ MustFinalize(s1)
           /\ sessions' = StoreSession(sessions, session_id, send_final_callback(s1, cb))
           /\ notifications' = Append(notifications,
                                      [payload |-> FinalPayload(session_id, s1),
                                       answer |-> cb])
           /\ db' = [db EXCEPT
                        !.writable = FALSE,
                        !.network_links =
                            IF failing_write = "build_network_links" THEN @
                            ELSE build_network_links(@, session_id,
                                                     AllItemValues(s1.intelligence))]
           /\ finalizations' = Bump(finalizations, session_id)
           /\ last_response' = ErrorResponse("honeypot", session_id)
    /\ requests' = requests \ {req}
    /\ UNCHANGED << now, groq_api_key, accepted, initialized, persona_runs >>

\* ------------------------------------------------- /api/simulate handler

\* session_id = f"sim-{request.sessionId}"
SimulateSessionId(sessionId) == "sim-" \o sessionId

ItemSummaries(items) ==
    [i \in 1..Len(items) |-> [value |-> items[i].value, confidence |-> items[i].confidence]]

\* the locals simulate_conversation holds across the reply generation
SimulateLocals(d, stage, new_intel) ==
    [is_scam |-> d.is_scam, confidence |-> d.confidence, patterns |-> d.patterns,
     stage |-> stage,
     intel_found |-> [bankAccounts |-> ItemSummaries(new_intel.bankAccounts),
                      upiIds |-> ItemSummaries(new_intel.upiIds),
                      phoneNumbers |-> ItemSummaries(new_intel.phoneNumbers),
                      phishingLinks |-> ItemSummaries(new_intel.phishingLinks),
                      keywords |-> new_intel.suspiciousKeywords]]

AppendReply(session_data, reply, timestamp) ==
    [session_data EXCEPT
        !.conversation_history = Append(@, [sender |-> "user", text |-> reply,
                                            timestamp |-> timestamp])]

SimulateResponse(req, session_data) ==
    [endpoint |-> "simulate", session_id |-> req.session_id, status |-> "success",
     reply |-> req.reply, llm_calls |-> req.llm_calls,
     nlp |-> [scamDetected |-> req.nlp.is_scam \/ session_data.scam_detected,
              confidence |-> GetConfidence(session_data, req.nlp.confidence),
              patternsFound |-> req.nlp.patterns,
              currentStage |-> req.nlp.stage,
              persona |-> session_data.persona,
              messageCount |-> session_data.message_count,
              intelligence |-> req.nlp.intel_found]]

\* the end of simulate_conversation for a coroutine q that has its reply; a
\* coroutine that sleeps before its next attempt stays among the suspended ones
SimulateContinue(others, q, ss) ==
    IF q.pc = "replied"
    THEN /\ sessions' = StoreSession(ss, q.session_id,
                                     AppendReply(ss[q.session_id], q.reply, now))
         /\ requests' = others
         /\ last_response' = SimulateResponse(q, ss[q.session_id])
    ELSE /\ sessions' = ss
         /\ requests' = others \cup {q}
         /\ UNCHANGED last_response

\* Step 2 and Step 3 of simulate_conversation
ClassifyAndExtract(session_data, stage, text, timestamp) ==
    [session_data EXCEPT !.current_stage = stage,
                         !.intelligence = extract_intelligence(text, @, timestamp)]

SimulateRequest(session_id, text, timestamp, nlp) ==
    [IdleRequest EXCEPT !.pc = "received", !.endpoint = "simulate",
                        !.session_id = session_id, !.sender = "scammer", !.text = text,
                        !.typing_start = timestamp, !.nlp = nlp]

\* the state simulate_conversation leaves at its return or its first sleep: prepared
\* is the session with the stage build_agent_prompt stored
SimulateSuspend(session_id, text, llms, taken, nlp, prepared) ==
    /\ \E q \in BeginGenerate(SimulateRequest(session_id, text, now, nlp), prepared, llms) :
           SimulateContinue(requests, q, StoreSession(sessions, session_id, prepared))
    /\ accepted' = Bump(accepted, session_id)
    /\ initialized' = IF IsUnseen(sessions, session_id) THEN Bump(initialized, session_id)
                      ELSE initialized
    /\ persona_runs' = IF IsFirstMessage(taken) THEN Bump(persona_runs, session_id)
                       ELSE persona_runs

SimulateExtract(session_id, text, llms, taken, d, stage, extracted) ==
    SimulateSuspend(session_id, text, llms, taken,
                    SimulateLocals(d, stage, extracted.intelligence),
                    StageForReply(extracted, text))

SimulateClassify(session_id, text, llms, taken, d, detected, stage) ==
    SimulateExtract(session_id, text, llms, taken, d, stage,
                    ClassifyAndExtract(detected, stage, text, now))

SimulateDetect(session_id, text, llms, taken, d, detected) ==
    SimulateClassify(session_id, text, llms, taken, d, detected,
                     detect_scam_stage(detected.message_count, detected.intelligence, text))

SimulateProcess(session_id, text, llms, taken, d) ==
    SimulateDetect(session_id, text, llms, taken, d, DetectInSimulate(taken, d))

\* simulate_conversation from the session lookup to its return or its first sleep
SimulateReceive(sessionId, text, llms) ==
    /\ SimulateProcess(SimulateSessionId(sessionId), text, llms,
                     TakeMessage(sessions, SimulateSessionId(sessionId), "scammer",
                                 text, now),
                     ScamIntent(text))
    /\ now' = now + 1
    /\ UNCHANGED << db, groq_api_key, notifications, finalizations >>

\* after asyncio.sleep in the retry loop of a simulate request
SimulateRetry(req, llm) ==
    /\ req.pc = "backoff"
    /\ req.endpoint = "simulate"
    /\ \E q \in AfterAttempt([req EXCEPT !.llm_calls = @ + 1],
                             sessions[req.session_id], llm) :
           SimulateContinue(requests \ {req}, q, sessions)
    /\ UNCHANGED << db, now, groq_api_key, notifications, accepted, initialized,
                    persona_runs, finalizations >>

\* ------------------------------------------------------- specifications

\* coroutines in flight at once
MaxInFlight == 2

\* inbound messages of a run, over all sessions
MaxRequests == 2

\* the sessionId values the clients send; /api/simulate prefixes them with "sim-"
SessionIds == {"a"}

Senders == {"scammer", "user"}

Init ==
    /\ sessions = << >>
    /\ db = EmptyDb
    /\ requests = {}
    /\ now = 1
    /\ groq_api_key \in BOOLEAN
    /\ notifications = << >>
    /\ last_response = Absent
    /\ accepted = << >>
    /\ initialized = << >>
    /\ persona_runs = << >>
    /\ finalizations = << >>

\* the server takes a request while it has room for one more coroutine
CanAccept == Cardinality(requests) < MaxInFlight /\ TotalAccepted < MaxRequests

Next ==
    \/ \E session_id \in SessionIds, sender \in Senders, text \in Texts :
           CanAccept /\ HoneypotReceive(session_id, sender, text, LLMResults)
    \/ \E req \in requests, llm \in LLMResults : HoneypotRetry(req, llm)
    \/ \E req \in requests, cb \in CallbackOutcomes : HoneypotFinish(req, cb)
    \/ \E sessionId \in SessionIds, text \in Texts :
           CanAccept /\ SimulateReceive(sessionId, text, LLMResults)
    \/ \E req \in requests, llm \in LLMResults : SimulateRetry(req, llm)

Spec == Init /\ [][Next]_vars

\* ------------------------------------------- a long session of /api/honeypot

\* inbound messages of a long session
MaxLongRequests == 9

\* the answers of a reply generator that serves every request
LLMSuccesses == {llm \in LLMResults : llm.status = "200"}

\* one client that sends its next message after it has read the reply
CanAcceptNext == requests = {} /\ TotalAccepted < MaxLongRequests

LongNext ==
    \/ \E session_id \in SessionIds, text \in LongTexts :
           CanAcceptNext /\ HoneypotReceive(session_id, "scammer", text, LLMSuccesses)
    \/ \E req \in requests, cb \in CallbackOutcomes : HoneypotFinish(req, cb)

\* the server of the long session has its reply generator configured
LongInit == Init /\ groq_api_key

LongSpec == LongInit /\ [][LongNext]_vars

\* --------------------------------------- a scripted session of /api/honeypot

\* inbound messages of a scripted session
MaxScriptRequests == 16

\* one client that follows the script and sends its next message after it has read
\* the reply
CanAcceptScript == requests = {} /\ TotalAccepted < MaxScriptRequests

ScriptNext ==
    \/ \E session_id \in SessionIds, text \in ScriptTexts(TotalAccepted + 1) :
           CanAcceptScript /\ HoneypotReceive(session_id, "scammer", text, LLMSuccesses)
    \/ \E req \in requests, cb \in CallbackOutcomes : HoneypotFinish(req, cb)

ScriptSpec == LongInit /\ [][ScriptNext]_vars

\* ------------------------- a scripted session over a database that gives out

\* inbound messages of a session over a failing database
MaxFaultRequests == 9

CanAcceptFault == requests = {} /\ TotalAccepted < MaxFaultRequests

\* the database stops taking writes at some write of some request, and stays so
FaultNext ==
    \/ \E session_id \in SessionIds, text \in ScriptTexts(TotalAccepted + 1) :
           /\ CanAcceptFault
           /\ db.writable
           /\ HoneypotReceive(session_id, "scammer", text, LLMSuccesses)
    \/ \E session_id \in SessionIds, text \in ScriptTexts(TotalAccepted + 1),
          failing_write \in {"save_session", "save_message", "save_intelligence"} :
           CanAcceptFault /\ HoneypotReceiveFault(session_id, "scammer", text, failing_write)
    \/ \E req \in requests, cb \in CallbackOutcomes : HoneypotFinish(req, cb)
    \/ \E req \in requests, cb \in CallbackOutcomes,
          failing_write \in {"build_network_links", "end_session"} :
           HoneypotFinishFault(req, cb, failing_write)

FaultSpec == LongInit /\ [][FaultNext]_vars

\* ------------------------ a session whose messages repeat their values

\* inbound messages of a session with repeated values
MaxRepeatRequests == 4

CanAcceptRepeat == requests = {} /\ TotalAccepted < MaxRepeatRequests

RepeatNext ==
    \/ \E session_id \in SessionIds, text \in RepeatTexts :
           CanAcceptRepeat /\ HoneypotReceive(session_id, "scammer", text, LLMSuccesses)
    \/ \E req \in requests, cb \in CallbackOutcomes : HoneypotFinish(req, cb)

RepeatSpec == LongInit /\ [][RepeatNext]_vars

\* ------------------------------------------------------------ properties

\* the suspended coroutines of a session
SessionRequests(k) == {q \in requests : q.session_id = k}

\* the text of the message that created the session
FirstText(k) == sessions[k].conversation_history[1].text

\* the persona the selector gives for a text
PersonaOf(text) == SelectedPersona(ScamIntent(text).patterns)

NoRepeat(q) == \A i, j \in 1..Len(q) : q[i] = q[j] => i = j

\* the notifications sent for a session
NotificationsOf(k) ==
    {i \in 1..Len(notifications) : notifications[i].payload.sessionId = k}

\* C1: the finalization block runs at most once per session, and the summary
\* notification is sent at most once, whether or not sending it succeeded
C1_FinalizedAtMostOnce ==
    \A k \in DOMAIN sessions :
        Count(finalizations, k) <= 1 /\ Cardinality(NotificationsOf(k)) <= 1

\* C2: while a message of a session is between its append to the history and the
\* evaluation of finalization, no other message of that session is being processed
C2_Serialized ==
    \A q1, q2 \in requests : q1.session_id = q2.session_id => q1 = q2

\* C3: a session is initialized exactly once, also when its first two messages are
\* in progress at once: both are counted and recorded in the one session, and the
\* first-message block ran for exactly one of them
C3_InitializedOnce ==
    \A k \in DOMAIN sessions :
        /\ initialized[k] = 1
        /\ persona_runs[k] = 1
        /\ sessions[k].message_count = accepted[k]
        /\ Len(sessions[k].conversation_history)
               = 2 * accepted[k] - Cardinality(SessionRequests(k))

\* two messages of a new session are both suspended before either has its reply
C3_Witness ==
    \E k \in DOMAIN sessions :
        /\ Cardinality(SessionRequests(k)) = 2
        /\ accepted[k] = 2
        /\ sessions[k].message_count = 2
        /\ Len(sessions[k].conversation_history) = 2

\* the sessions a step works for: the one that took a message in, and those of the
\* coroutines that were resumed or suspended
StepSessions ==
    {k \in DOMAIN accepted' : Count(accepted', k) # Count(accepted, k)}
    \cup {q.session_id : q \in (requests \ requests') \cup (requests' \ requests)}

\* C4: a step that processes a message of one session leaves the in-memory state of
\* every other session as it was
C4_OtherSessionsUnchanged ==
    [][\A b \in DOMAIN sessions :
           b \notin StepSessions => b \in DOMAIN sessions' /\ sessions'[b] = sessions[b]]_vars

\* a session was created and processed while a message of another session was
\* suspended
C4_Witness ==
    \E q \in requests, b \in DOMAIN sessions :
        /\ b # q.session_id
        /\ q.session_id \in DOMAIN sessions
        /\ sessions[b].created_at > q.typing_start

\* C5: the persona selector ran exactly once for every session, on the tags of its
\* first message, and no step changes the persona of a session
C5_PersonaSetOnce ==
    /\ [](\A k \in DOMAIN sessions :
              persona_runs[k] = 1 /\ sessions[k].persona = PersonaOf(FirstText(k)))
    /\ [][\A k \in DOMAIN sessions : sessions'[k].persona = sessions[k].persona]_vars

\* a session took a second message whose tags select another persona
C5_Witness ==
    \E k \in DOMAIN sessions :
        /\ accepted[k] = 2
        /\ \E i \in 2..Len(sessions[k].conversation_history) :
               LET text == sessions[k].conversation_history[i].text
               IN  text \in KnownTexts /\ PersonaOf(text) # sessions[k].persona

\* C6: the message count of a session is the number of messages accepted for it
C6_CountIsAccepted ==
    /\ DOMAIN accepted = DOMAIN sessions
    /\ \A k \in DOMAIN sessions : sessions[k].message_count = accepted[k]

\* two messages of a session were accepted and answered
C6_Witness ==
    \E k \in DOMAIN sessions :
        accepted[k] = 2 /\ sessions[k].message_count = 2 /\ SessionRequests(k) = {}

\* C7: the stored scam confidence of a session lies in 0..1 and no step lowers it
C7_ConfidenceMonotone ==
    /\ [](\A k \in DOMAIN sessions : GetConfidence(sessions[k], 0) \in 0..FullConfidence)
    /\ [][\A k \in DOMAIN sessions :
              GetConfidence(sessions'[k], 0) >= GetConfidence(sessions[k], 0)]_vars

\* a later message raised the confidence of a session, up to the cap
C7_Witness ==
    \E k \in DOMAIN sessions :
        /\ accepted[k] = 2
        /\ GetConfidence(sessions[k], 0) > ScamIntent(FirstText(k)).confidence
        /\ GetConfidence(sessions[k], 0) = FullConfidence

\* the sessions in which the extraction stored an identifier value
SessionsOfIdentifier(value) ==
    {db.intelligence[i].session_id :
         i \in {j \in 1..Len(db.intelligence) : db.intelligence[j].value = value}}

\* C8: the session_count of a scammer profile is the number of distinct sessions in
\* which its identifier was extracted
C8_SessionCountIsSessions ==
    \A v \in DOMAIN db.scammers :
        db.scammers[v].session_count = Cardinality(SessionsOfIdentifier(v))

\* C9: no kind of a session's intelligence holds a value twice, and no keyword is
\* listed twice
C9_NoDuplicateItems ==
    \A k \in DOMAIN sessions :
        /\ NoRepeat(Values(sessions[k].intelligence.bankAccounts))
        /\ NoRepeat(Values(sessions[k].intelligence.upiIds))
        /\ NoRepeat(Values(sessions[k].intelligence.phoneNumbers))
        /\ NoRepeat(Values(sessions[k].intelligence.phishingLinks))
        /\ NoRepeat(sessions[k].intelligence.suspiciousKeywords)

\* the counterparty sent a text with identifiers twice in one session
C9_Witness ==
    \E k \in DOMAIN sessions :
        LET history == sessions[k].conversation_history
        IN  \E i, j \in 1..Len(history) :
                /\ i < j
                /\ history[i].sender = "scammer" /\ history[j].sender = "scammer"
                /\ history[i].text = history[j].text
                /\ Len(Found(history[i].text).bank_accounts)
                       + Len(Found(history[i].text).upi_ids) > 0
                /\ Len(sessions[k].intelligence.suspiciousKeywords)
                       < Len(Found(history[i].text).keywords)

\* two link rows of one session that join the same two identifier values
SamePair(x, y) ==
    /\ x.session_id = y.session_id
    /\ {x.source_identifier, x.target_identifier}
           = {y.source_identifier, y.target_identifier}

\* C10: the network links of a session hold every pair of identifier values at most
\* once, in one direction only
C10_LinksUndirectedUnique ==
    \A i, j \in 1..Len(db.network_links) :
        SamePair(db.network_links[i], db.network_links[j]) => i = j

\* the rows of the links table that originate from session k
LinksOf(table, k) == {i \in 1..Len(table) : table[i].session_id = k}

\* the pairs of values those rows join
PairsOf(table, k) ==
    {{table[i].source_identifier, table[i].target_identifier} : i \in LinksOf(table, k)}

\* the distinct identifier values a session has gathered
IdentifiersOf(session_data) == Range(AllItemValues(session_data.intelligence))

\* the unordered pairs of distinct values of V
UnorderedPairs(V) == {p \in SUBSET V : Cardinality(p) = 2}

\* C11: the step that finalizes a session for the first time leaves exactly the
\* n(n-1)/2 unordered pairs of its n distinct identifier values as the links of the
\* session, and a step that finalizes it again adds no link
C11_LinksAreAllPairs ==
    [][\A k \in DOMAIN sessions :
          Count(finalizations', k) > Count(finalizations, k) =>
              IF Count(finalizations, k) = 0
              THEN LET n == Cardinality(IdentifiersOf(sessions'[k]))
                   IN  /\ PairsOf(db'.network_links, k) = UnorderedPairs(IdentifiersOf(sessions'[k]))
                       /\ 2 * Cardinality(LinksOf(db'.network_links, k)) = n * (n - 1)
              ELSE db'.network_links = db.network_links]_vars

\* C12: a link of session S is stored only by a step that finalizes S, and it joins
\* two values of the intelligence S has extracted
C12_LinksOnlyAtFinalization ==
    /\ [](\A i \in 1..Len(db.network_links) :
              LET link == db.network_links[i]
              IN  /\ link.session_id \in DOMAIN sessions
                  /\ Count(finalizations, link.session_id) >= 1
                  /\ link.source_identifier \in IdentifiersOf(sessions[link.session_id])
                  /\ link.target_identifier \in IdentifiersOf(sessions[link.session_id]))
    /\ [][db'.network_links # db.network_links =>
              \E k \in DOMAIN sessions :
                  /\ Count(finalizations', k) > Count(finalizations, k)
                  /\ \A i \in 1..Len(db'.network_links) :
                         i > Len(db.network_links) => db'.network_links[i].session_id = k]_vars

\* a finalized session that has links and has taken a further message since
C12_Witness ==
    \E k \in DOMAIN sessions :
        /\ Count(finalizations, k) >= 1
        /\ LinksOf(db.network_links, k) # {}
        /\ sessions[k].message_count > FinalizeWithIntel

\* the finalization predicate as the specification states it: 15 messages, or 8 with
\* a bank account, a payment handle, a link or two phone numbers
FinalizationDue(message_count, intel) ==
    IF message_count >= 15 THEN TRUE
    ELSE IF message_count <= 7 THEN FALSE
    ELSE \/ Len(intel.bankAccounts) >= 1
         \/ Len(intel.upiIds) >= 1
         \/ Len(intel.phishingLinks) >= 1
         \/ Len(intel.phoneNumbers) >= 2

\* C13: a session whose messages are all processed and for which the finalization
\* predicate is true has been finalized
C13_FinalizedWhenDue ==
    \A k \in DOMAIN sessions :
        (/\ SessionRequests(k) = {}
         /\ FinalizationDue(sessions[k].message_count, sessions[k].intelligence))
            => Count(finalizations, k) >= 1

\* C14: should_finalize_session is true exactly when the count is 15 or more, or 8 or
\* more with a bank account, a payment handle, a link or two phone numbers; no session
\* with 7 messages or fewer is finalized
C14_PredicateIsThresholds ==
    \A k \in DOMAIN sessions :
        /\ should_finalize_session(sessions[k].message_count, sessions[k].intelligence)
               = FinalizationDue(sessions[k].message_count, sessions[k].intelligence)
        /\ Count(finalizations, k) >= 1 => sessions[k].message_count >= 8

\* a session with one phone number and nothing else that was finalized by its 15th
\* message and not before
C14_Witness ==
    \E k \in DOMAIN sessions :
        /\ sessions[k].message_count = 15
        /\ SessionRequests(k) = {}
        /\ Len(sessions[k].intelligence.phoneNumbers) = 1
        /\ Len(sessions[k].intelligence.bankAccounts) = 0
        /\ Count(finalizations, k) = 1
        /\ Len(notifications) = 1
        /\ notifications[1].payload.totalMessagesExchanged = 15

\* C15: the stored row of a session that has been finalized has status 'completed'
C15_CompletedStays ==
    \A k \in DOMAIN sessions :
        Count(finalizations, k) >= 1 =>
            /\ k \in DOMAIN db.sessions
            /\ db.sessions[k].status = "completed"

\* the text of the inbound message a session has taken last: the last entry of the
\* history, or the one before it when the reply is already appended
LastInbound(history) ==
    IF history[Len(history)].text \in KnownTexts THEN history[Len(history)].text
    ELSE history[Len(history) - 1].text

\* C16: a step that takes an inbound message in leaves the stage the classifier gives
\* for that message, the new count and the new intelligence as the session's stage
C16_StageIsClassified ==
    [][\A k \in DOMAIN sessions' :
          Count(accepted', k) > Count(accepted, k) =>
              sessions'[k].current_stage
                  = detect_scam_stage(sessions'[k].message_count,
                                      sessions'[k].intelligence,
                                      LastInbound(sessions'[k].conversation_history))]_vars

\* the replies the reply generator's answers are cleaned to
CleanReplies == {CleanReply(c) : c \in LLMContents}

\* the coroutine q of /api/honeypot returns in this step
Returns(q) == q \in requests /\ q \notin requests' /\ q.pc = "replied" /\ q.endpoint = "honeypot"

\* C17: whatever the reply generator answers, a suspended coroutine has its next step
\* (the next attempt after a backoff, the return after the typing delay) and a reply
\* text once it has left the generator; the step in which it returns appends that
\* reply to the history as sent by "user", answers with it, and runs the finalization
\* block exactly when the finalization guard holds
C17_ReplyAlwaysProduced ==
    /\ [](\A q \in requests :
              /\ q.pc \in {"backoff", "replied"}
              /\ q.pc = "replied" => q.reply # ""
              /\ q.pc = "replied" /\ q.endpoint = "honeypot" =>
                     \A cb \in CallbackOutcomes : ENABLED HoneypotFinish(q, cb)
              /\ q.pc = "backoff" /\ q.endpoint = "honeypot" =>
                     \A llm \in LLMResults : ENABLED HoneypotRetry(q, llm)
              /\ q.pc = "backoff" /\ q.endpoint = "simulate" =>
                     \A llm \in LLMResults : ENABLED SimulateRetry(q, llm))
    /\ [][\A q \in requests :
              Returns(q) =>
                  LET before == sessions[q.session_id]
                      after == sessions'[q.session_id]
                      history == after.conversation_history
                  IN  /\ Len(history) = Len(before.conversation_history) + 1
                      /\ history[Len(history)].sender = "user"
                      /\ history[Len(history)].text = q.reply
                      /\ last_response'.status = "success"
                      /\ last_response'.reply = q.reply
                      /\ (Count(finalizations', q.session_id)
                              > Count(finalizations, q.session_id))
                         <=> (/\ before.scam_detected
                              /\ ~before.callback_sent
                              /\ FinalizationDue(before.message_count,
                                                 before.intelligence))]_vars

\* a request of /api/honeypot whose two calls of the reply generator both failed has
\* returned a fallback reply, which is the last entry of the session's history
C17_Witness ==
    /\ \E k \in DOMAIN sessions : Len(sessions[k].typing_timestamps) > 0
    /\ last_response.endpoint = "honeypot"
    /\ last_response.llm_calls = max_retries
    /\ last_response.reply \notin CleanReplies
    /\ LET history == sessions[last_response.session_id].conversation_history
       IN  /\ history[Len(history)].sender = "user"
           /\ history[Len(history)].text = last_response.reply

\* C18: a coroutine calls the reply generator at most twice and not at all without a
\* key; it sleeps before a retry only after its first call, and holds a fallback
\* reply only after its second call; a second call is the retry of a coroutine that
\* slept after its first, and /api/simulate returns right after it
C18_AtMostOneRetry ==
    /\ [](\A q \in requests :
              /\ q.llm_calls <= 2
              /\ ~groq_api_key => q.llm_calls = 0
              /\ q.pc = "backoff" => q.llm_calls = 1
              /\ (groq_api_key /\ q.pc = "replied" /\ q.reply \notin CleanReplies)
                     => q.llm_calls = 2)
    /\ [][\A q \in requests' :
              (q \notin requests /\ q.llm_calls = 2) =>
                  \E p \in requests :
                      /\ p \notin requests'
                      /\ p.pc = "backoff"
                      /\ p.llm_calls = 1
                      /\ p.session_id = q.session_id
                      /\ p.text = q.text]_vars
    /\ [][\A p \in requests :
              (p \notin requests' /\ p.endpoint = "simulate") =>
                  last_response'.llm_calls = 2]_vars

\* a coroutine whose two calls both failed holds a fallback reply
C18_Witness ==
    \E q \in requests :
        /\ groq_api_key
        /\ q.llm_calls = 2
        /\ q.pc = "replied"
        /\ q.reply \notin CleanReplies

\* the identifier values and keywords of an intelligence set, without the times of
\* extraction
IntelValues(intel) ==
    [bankAccounts |-> Values(intel.bankAccounts),
     upiIds |-> Values(intel.upiIds),
     phoneNumbers |-> Values(intel.phoneNumbers),
     phishingLinks |-> Values(intel.phishingLinks),
     suspiciousKeywords |-> intel.suspiciousKeywords]

\* session k has taken one message and has been answered with a fallback reply
AnsweredByFallback(k) ==
    /\ sessions[k].message_count = 1
    /\ Len(sessions[k].conversation_history) = 2
    /\ sessions[k].conversation_history[2].text \notin CleanReplies

\* C19: two sessions that were answered with the fallback reply at the same message
\* count (here the first message) and with the same extracted intelligence got the
\* same reply
C19_FallbackDeterministic ==
    \A k1, k2 \in DOMAIN sessions :
        (/\ AnsweredByFallback(k1)
         /\ AnsweredByFallback(k2)
         /\ IntelValues(sessions[k1].intelligence) = IntelValues(sessions[k2].intelligence))
            => sessions[k1].conversation_history[2].text
                   = sessions[k2].conversation_history[2].text

\* C20: whatever the database does, a request of /api/honeypot that is taken in
\* leaves a coroutine that goes on to its reply, and a coroutine that returns answers
\* "success" with its reply
C20_WritesNeverFailRequest ==
    /\ [][\A k \in DOMAIN accepted' :
              Count(accepted', k) > Count(accepted, k) =>
                  \E q \in requests' : q \notin requests /\ q.session_id = k]_vars
    /\ [][\A q \in requests :
              (q \notin requests' /\ q.pc = "replied") =>
                  /\ last_response'.status = "success"
                  /\ last_response'.reply = q.reply]_vars

ResumeReplied ==
    \/ \E req \in requests, cb \in CallbackOutcomes : HoneypotFinish(req, cb)
    \/ \E req \in requests, cb \in CallbackOutcomes,
          failing_write \in {"build_network_links", "end_session"} :
           HoneypotFinishFault(req, cb, failing_write)

\* the scripted session over a failing database, every sleeping coroutine resumed
FairFaultSpec == FaultSpec /\ WF_vars(ResumeReplied)

\* C22: the n-th inbound message of a session whose processing has started has its
\* reply appended to the history at some later point, whatever the external calls
\* answer
C22_EveryMessageCompletes ==
    \A k \in SessionIds, n \in 1..MaxFaultRequests :
        (Count(accepted, k) >= n)
            ~> (k \in DOMAIN sessions /\ Len(sessions[k].typing_timestamps) >= n)

\* class AgentResponse(BaseModel): the fields of the body /api/honeypot answers with
AgentResponse(status, reply) == [status |-> status, reply |-> reply]

\* return AgentResponse(status="success", reply=agent_reply): the body the client
\* reads from a response of /api/honeypot
ResponseBody(response) == AgentResponse(response.status, response.reply)

\* C27: the response to a counterparty message that was processed to its end carries
\* status and reply together with the scamDetected flag of the session and the
\* extractedIntelligence the session has accumulated
C27_ResponseCarriesIntelligence ==
    \A k \in DOMAIN sessions :
        (/\ Len(sessions[k].typing_timestamps) > 0
         /\ SessionRequests(k) = {}
         /\ last_response.session_id = k
         /\ last_response.status = "success")
            => LET body == ResponseBody(last_response)
               IN  /\ {"status", "reply", "scamDetected", "extractedIntelligence"}
                          \subseteq DOMAIN body
                   /\ body.scamDetected = sessions[k].scam_detected
                   /\ body.extractedIntelligence = sessions[k].intelligence

\* the intelligence and the history a session id stands for in the dict ss
IntelligenceOf(ss, k) == IF k \in DOMAIN ss THEN ss[k].intelligence ELSE EmptyIntelligence

HistoryOf(ss, k) == IF k \in DOMAIN ss THEN ss[k].conversation_history ELSE << >>

\* C23: a step changes the extracted intelligence of a session only when it takes an
\* inbound message of that session whose sender is the counterparty; a step that
\* takes a message of another sender, and a step that appends a reply, leave it as
\* it was
C23_IntelligenceOnlyFromCounterparty ==
    [][\A k \in DOMAIN sessions' :
           IntelligenceOf(sessions', k) # IntelligenceOf(sessions, k)
               => /\ Count(accepted', k) = Count(accepted, k) + 1
                  /\ Len(HistoryOf(sessions', k)) > Len(HistoryOf(sessions, k))
                  /\ HistoryOf(sessions', k)[Len(HistoryOf(sessions, k)) + 1].sender
                         = "scammer"]_vars

\* a session that took a message with two phone numbers from a sender other than the
\* counterparty and a payment handle from the counterparty: it holds the handle and
\* no phone number, and both messages are answered
C23_Witness ==
    \E k \in DOMAIN sessions :
        LET history == sessions[k].conversation_history
        IN  /\ SessionRequests(k) = {}
            /\ Len(history) = 4
            /\ \E i \in 1..Len(history) :
                   /\ history[i].sender = "user"
                   /\ history[i].text \in Texts
                   /\ Found(history[i].text).phone_numbers # << >>
            /\ \E i \in 1..Len(history) :
                   /\ history[i].sender = "scammer"
                   /\ history[i].text \in Texts
                   /\ Found(history[i].text).upi_ids # << >>
            /\ sessions[k].intelligence.phoneNumbers = << >>
            /\ sessions[k].intelligence.upiIds # << >>

\* the sets a session of the run has accumulated, and the empty one
AccumulatedSets == {EmptyIntelligence} \cup {sessions[k].intelligence : k \in DOMAIN sessions}

\* C24: extraction is idempotent: for every text and every accumulated set S, a second
\* extraction of the same text from extract(text, S) adds nothing, also when the text
\* holds the same value several times
C24_ExtractionIdempotent ==
    \A S \in AccumulatedSets, text \in RepeatTexts :
        LET once == extract_intelligence(text, S, now)
        IN  extract_intelligence(text, once, now + 1) = once

\* a session that took the text with a handle and a phone number named twice each and
\* holds each of them once
C24_Witness ==
    \E k \in DOMAIN sessions :
        /\ \E i \in 1..Len(sessions[k].conversation_history) :
               sessions[k].conversation_history[i].text
                   = "pay a@ybl a@ybl +919876543210 +919876543210"
        /\ Len(Found("pay a@ybl a@ybl +919876543210 +919876543210").upi_ids) = 2
        /\ Len(Found("pay a@ybl a@ybl +919876543210 +919876543210").phone_numbers) = 2
        /\ Len(sessions[k].intelligence.upiIds) = 1
        /\ Len(sessions[k].intelligence.phoneNumbers) = 1
        /\ extract_intelligence("pay a@ybl a@ybl +919876543210 +919876543210",
                                sessions[k].intelligence, now) = sessions[k].intelligence

\* the list a begins the list b
IsPrefix(a, b) == Len(a) <= Len(b) /\ SubSeq(b, 1, Len(a)) = a

\* C25: every step keeps the items a session holds: each list of its intelligence
\* after the step begins with the list before the step, item for item with the same
\* value, confidence, method and timestamp
C25_ItemsKept ==
    [][\A k \in DOMAIN sessions :
           /\ k \in DOMAIN sessions'
           /\ IsPrefix(sessions[k].intelligence.bankAccounts,
                       sessions'[k].intelligence.bankAccounts)
           /\ IsPrefix(sessions[k].intelligence.upiIds, sessions'[k].intelligence.upiIds)
           /\ IsPrefix(sessions[k].intelligence.phoneNumbers,
                       sessions'[k].intelligence.phoneNumbers)
           /\ IsPrefix(sessions[k].intelligence.phishingLinks,
                       sessions'[k].intelligence.phishingLinks)
           /\ IsPrefix(sessions[k].intelligence.suspiciousKeywords,
                       sessions'[k].intelligence.suspiciousKeywords)]_vars

\* a session of four answered messages that holds an account number of an early
\* message and one of a later message, the early one with its own earlier timestamp,
\* and that was sent one of its texts again
C25_Witness ==
    \E k \in DOMAIN sessions :
        LET banks == sessions[k].intelligence.bankAccounts
            history == sessions[k].conversation_history
        IN  /\ sessions[k].message_count = 4
            /\ SessionRequests(k) = {}
            /\ Len(banks) = 2
            /\ banks[1].extractedAt < banks[2].extractedAt
            /\ banks[2].extractedAt < history[Len(history) - 1].timestamp
            /\ \E i, j \in 1..Len(history) : i < j /\ history[i].sender = "scammer"
                                              /\ history[j].sender = "scammer"
                                              /\ history[i].text = history[j].text

\* the sum of increments as the specification states it, in hundredths: 15 for every
\* keyword tag whose keyword the lowered text holds, 20 for a run of ten digits or
\* more, 25 for a URL, 15 for an email address
IncrementSum(text) ==
    15 * Cardinality({i \in 1..Len(PatternPairs) :
                          Contains(Lower(text), PatternPairs[i].keyword)})
    + (IF HasLongDigitRun(text) THEN 20 ELSE 0)
    + (IF HasLinkPrefix(text) THEN 25 ELSE 0)
    + (IF HasEmail(text) THEN 15 ELSE 0)

\* IncrementSum for the texts of the model, computed once
IncrementSums == [t \in KnownTexts |-> IncrementSum(t)]

\* C26: for every text the scorer's confidence is the smaller of the sum of increments
\* and 1.0 and lies between 0 and 1, and isScam is true exactly when the unclamped sum
\* is 0.3 or more; a session of /api/honeypot stores these two results for its first
\* message
C26_ScoreIsClampedSum ==
    /\ \A text \in KnownTexts :
           /\ ScamIntent(text).confidence
                  = (IF IncrementSums[text] < 100 THEN IncrementSums[text] ELSE 100)
           /\ ScamIntent(text).confidence \in 0..100
           /\ ScamIntent(text).is_scam = (IncrementSums[text] >= 30)
    /\ \A k \in SessionIds :
           (k \in DOMAIN sessions /\ sessions[k].scam_confidence # Unset)
               => /\ sessions[k].scam_confidence[1] \in 0..100
                  /\ sessions[k].scam_confidence[1] <= IncrementSums[FirstText(k)]
                  /\ IncrementSums[FirstText(k)] < 100
                         => sessions[k].scam_confidence[1] = IncrementSums[FirstText(k)]
                  /\ sessions[k].scam_detected = (IncrementSums[FirstText(k)] >= 30)

\* a session of /api/honeypot whose first message has eight keyword tags: the sum is
\* 1.2, the stored confidence 1.0, and the session counts as a scam
C26_Witness ==
    \E k \in SessionIds :
        /\ k \in DOMAIN sessions
        /\ sessions[k].scam_confidence = SetTo(100)
        /\ IncrementSums[FirstText(k)] = 120
        /\ sessions[k].scam_detected

\* the rules of the stage classifier in the order the specification gives them, each
\* with its condition for a message count, an intelligence set and the cues of a text
StageRules(message_count, intelligence, cues) ==
    << [gives |-> "HOOK", matches |-> message_count <= 2 /\ cues.alarm],
       [gives |-> "TRUST_BUILDING", matches |-> message_count <= 4 /\ cues.authority],
       [gives |-> "PAYMENT_ASK", matches |-> cues.payment],
       [gives |-> "CREDENTIAL_REQUEST", matches |-> cues.credential],
       [gives |-> "LINK_DROP", matches |-> cues.link],
       [gives |-> "CLOSING", matches |-> \/ Len(intelligence.bankAccounts) >= 1
                                         \/ Len(intelligence.upiIds) >= 1],
       [gives |-> "EXPLORATORY", matches |-> TRUE] >>

\* what the first rule that matches gives
FirstMatch(rules) ==
    rules[CHOOSE i \in 1..Len(rules) :
              rules[i].matches /\ \A j \in 1..(i - 1) : ~rules[j].matches].gives

\* every combination of cues a text can show
AllCues == [alarm : BOOLEAN, authority : BOOLEAN, payment : BOOLEAN,
            credential : BOOLEAN, link : BOOLEAN]

\* the stages a session can have stored
Stages == {"HOOK", "TRUST_BUILDING", "PAYMENT_ASK", "CREDENTIAL_REQUEST", "LINK_DROP",
           "CLOSING", "EXPLORATORY"}

\* C28: for every message count, every combination of cues (and every text of the
\* model) and every accumulated intelligence set, the stage classifier returns the
\* stage of the first matching rule in the order HOOK, TRUST_BUILDING, PAYMENT_ASK,
\* CREDENTIAL_REQUEST, LINK_DROP, CLOSING, EXPLORATORY, and the stage a session had
\* before does not change the result
C28_StageIsFirstMatch ==
    /\ \A message_count \in 0..(TrustMaxCount + 2), S \in AccumulatedSets :
           /\ \A cues \in AllCues :
                  StageOf(message_count, S, cues)
                      = FirstMatch(StageRules(message_count, S, cues))
           /\ \A text \in KnownTexts :
                  detect_scam_stage(message_count, S, text)
                      = FirstMatch(StageRules(message_count, S, Cues(text)))
    /\ \A k \in DOMAIN sessions, previous \in Stages, text \in KnownTexts :
           ClassifyForPrompt([sessions[k] EXCEPT !.current_stage = previous],
                             text).current_stage
               = ClassifyForPrompt(sessions[k], text).current_stage

\* a session that holds an account number and whose third message has no cue: the
\* classifier went through every rule to CLOSING and the stage is stored
C28_Witness ==
    \E k \in DOMAIN sessions :
        /\ sessions[k].message_count = 3
        /\ Len(sessions[k].intelligence.bankAccounts) = 1
        /\ Len(sessions[k].intelligence.upiIds) = 0
        /\ LastInbound(sessions[k].conversation_history) = "ok sir"
        /\ Cues("ok sir") = [alarm |-> FALSE, authority |-> FALSE, payment |-> FALSE,
                             credential |-> FALSE, link |-> FALSE]
        /\ sessions[k].current_stage = "CLOSING"

\* some tag of the list mentions some of the words
Mentions(tags, words) ==
    \E i \in 1..Len(tags), w \in words : Contains(Lower(tags[i]), w)

\* the rules of the persona selector in the order the specification gives them
PersonaRules(tags) ==
    << [gives |-> "YOUNG_NAIVE",
        matches |-> Mentions(tags, {"link", "download", "app", "update", "install"})],
       [gives |-> "ELDERLY_CONFUSED",
        matches |-> Mentions(tags, {"government", "police", "tax", "pension", "rbi",
                                    "customs", "arrest"})],
       [gives |-> "EXCITED_SKEPTICAL",
        matches |-> Mentions(tags, {"won", "prize", "lottery", "reward", "winner",
                                    "congratulations"})],
       [gives |-> "WORRIED_PARENT", matches |-> TRUE] >>

\* tags the scorer can give: for a link, and of the categories impersonation, reward
\* and urgency
SomeTags == {"link_present", "impersonation:police", "reward:won", "reward:cashback",
             "urgency:urgent"}

\* the longest tag list the selector is given here
MaxTags == 2

\* the tag lists of the texts of the model and every list of at most MaxTags of SomeTags
TagLists ==
    {ScamIntent(t).patterns : t \in KnownTexts}
        \cup UNION {[1..n -> SomeTags] : n \in 0..MaxTags}

\* select_persona agrees with the first matching rule on every tag list
SelectorFollowsRules ==
    \A tags \in TagLists : select_persona(tags) = FirstMatch(PersonaRules(tags))

\* C29: for every list of pattern tags the persona selector returns the persona of the
\* first matching rule in the order tech, authority, prize, and the worried parent
\* when no rule matches or the list is empty; a session stores the persona the rules
\* give for the tags of its first message
C29_PersonaIsFirstMatch ==
    /\ SelectorFollowsRules
    /\ select_persona(<< >>) = "WORRIED_PARENT"
    /\ \A k \in DOMAIN sessions :
           sessions[k].persona = FirstMatch(PersonaRules(ScamIntent(FirstText(k)).patterns))

\* a session whose first message carries a link: the tech rule matches first and the
\* session keeps that persona over later messages
C29_Witness ==
    \E k \in DOMAIN sessions :
        /\ sessions[k].message_count >= 2
        /\ ScamIntent(FirstText(k)).patterns = << "link_present" >>
        /\ sessions[k].persona = "YOUNG_NAIVE"

\* the rule of the specification for a lowered token@token candidate: it is rejected
\* when its domain part matches the email-provider list and holds a dot while the
\* candidate matches no payment-provider keyword, and stored otherwise
StoredByRule(upi_lower) ==
    ~(/\ ContainsAny(DomainPart(upi_lower), Range(email_domains))
      /\ Contains(DomainPart(upi_lower), ".")
      /\ ~ContainsAny(upi_lower, Range(upi_patterns)))

\* the confidence of the specification: 0.95 for one of the first nine provider
\* keywords, 0.8 otherwise
ConfidenceByRule(upi_lower) ==
    IF ContainsAny(upi_lower, {upi_patterns[i] : i \in 1..9}) THEN 95 ELSE 80

\* the token@token candidates of the counterparty's messages of a session
CandidatesOf(session_data) ==
    UNION {{Found(session_data.conversation_history[i].text).upi_ids[j].value :
                j \in 1..Len(Found(session_data.conversation_history[i].text).upi_ids)} :
           i \in {n \in 1..Len(session_data.conversation_history) :
                      /\ session_data.conversation_history[n].sender = "scammer"
                      /\ session_data.conversation_history[n].text \in KnownTexts}}

\* C30: a token@token candidate the counterparty sent is among the payment handles of
\* the session exactly when the rule stores it, and then with the confidence of the
\* rule
C30_HandleStoredByRule ==
    \A k \in DOMAIN sessions :
        \A candidate \in CandidatesOf(sessions[k]) :
            /\ HasValue(sessions[k].intelligence.upiIds, candidate)
                   = StoredByRule(Lower(candidate))
            /\ \A i \in 1..Len(sessions[k].intelligence.upiIds) :
                   sessions[k].intelligence.upiIds[i].value = candidate
                       => sessions[k].intelligence.upiIds[i].confidence
                              = ConfidenceByRule(Lower(candidate))

\* the rows of the intelligence table that hold the value v of the kind intel_type for
\* the session k: one row for every call of save_intelligence with these arguments
SavedRows(k, intel_type, v) ==
    {i \in 1..Len(db.intelligence) :
         /\ db.intelligence[i].session_id = k
         /\ db.intelligence[i].intel_type = intel_type
         /\ db.intelligence[i].value = v}

\* C31: save_intelligence is called once for every (session, kind, value): the table
\* holds one row for every item a session's set holds, and no row twice
C31_SavedOncePerItem ==
    \A k \in DOMAIN sessions :
        /\ \A i \in 1..Len(db.intelligence) :
               db.intelligence[i].session_id = k =>
                   Cardinality(SavedRows(k, db.intelligence[i].intel_type,
                                         db.intelligence[i].value)) = 1
        /\ \A v \in Range(Values(sessions[k].intelligence.bankAccounts)) :
               Cardinality(SavedRows(k, "bank_account", v)) = 1
        /\ \A v \in Range(Values(sessions[k].intelligence.upiIds)) :
               Cardinality(SavedRows(k, "upi_id", v)) = 1
        /\ \A v \in Range(Values(sessions[k].intelligence.phoneNumbers)) :
               Cardinality(SavedRows(k, "phone", v)) = 1
        /\ \A v \in Range(Values(sessions[k].intelligence.phishingLinks)) :
               Cardinality(SavedRows(k, "link", v)) = 1

\* the entry is an inbound message: its text is one the clients send, and the replies
\* of the system are none of these
IsInbound(entry) == entry.text \in KnownTexts

\* C32: when no request of a session is in flight, its history holds two entries for
\* every counted message, an inbound message at every odd place and the reply to it,
\* sent by "user", at the even place that follows
C32_HistoryAlternates ==
    \A k \in DOMAIN sessions :
        SessionRequests(k) = {} =>
            LET history == sessions[k].conversation_history
            IN  /\ Len(history) = 2 * sessions[k].message_count
                /\ \A i \in 1..Len(history) :
                       IF i % 2 = 1 THEN IsInbound(history[i])
                       ELSE ~IsInbound(history[i]) /\ history[i].sender = "user"

\* C33: no stored network link joins an identifier value to itself
C33_NoSelfLink ==
    \A i \in 1..Len(db.network_links) :
        db.network_links[i].source_identifier # db.network_links[i].target_identifier

\* the texts of the scripted session that name no identifier at all
NoIdentifierTexts == {"URGENT your account is blocked", "ok sir"}

\* the texts that name the phone number 9876543210 and no other identifier
OnePhoneTexts == {"no_9876543210", "call 9876543210"}

\* the counterparty of session k has supplied one phone number and nothing else
SuppliedOnePhoneOnly(k) ==
    LET history == sessions[k].conversation_history
    IN  /\ \A i \in 1..Len(history) :
               IsInbound(history[i]) =>
                   history[i].text \in NoIdentifierTexts \cup OnePhoneTexts
        /\ \E i \in 1..Len(history) : history[i].text \in OnePhoneTexts

\* C34: a session whose counterparty has supplied one phone number and no bank account,
\* payment handle or link is not finalized before its message count reaches 15
C34_OnePhoneWaitsFor15 ==
    \A k \in DOMAIN sessions :
        SuppliedOnePhoneOnly(k) /\ Count(finalizations, k) >= 1 =>
            sessions[k].message_count >= 15

\* C35: a session is recorded as notified only when the notification sink accepted the
\* summary: its callback-sent flag is true only with a success status of the sink
C35_SentOnlyWhenAccepted ==
    \A k \in DOMAIN sessions :
        sessions[k].callback_sent => sessions[k].callback_status = "200"

\* the part of a session's in-memory state a failed message must leave alone
SessionState(session_data) ==
    << session_data.conversation_history, session_data.message_count,
       session_data.scam_detected, session_data.persona, session_data.intelligence >>

\* a step that takes a message of session k in and ends with the error, leaving no
\* coroutine that goes on to the reply
FailsBeforeReply(k) ==
    /\ Count(accepted', k) > Count(accepted, k)
    /\ ~\E q \in requests' : q \notin requests /\ q.session_id = k

\* C36: a step in which the processing of an inbound message fails before a reply is
\* returned leaves the session's history, message count, scam flag, persona and
\* intelligence as they were before the message, and creates no session
C36_FailureLeavesSessionAsBefore ==
    [][\A k \in DOMAIN accepted' :
          FailsBeforeReply(k) =>
              IF k \in DOMAIN sessions
              THEN /\ k \in DOMAIN sessions'
                   /\ SessionState(sessions'[k]) = SessionState(sessions[k])
              ELSE k \notin DOMAIN sessions']_vars

\* ------------- clients of both endpoints that choose their session identifiers

\* request.sessionId of /api/honeypot is any string of the client's choice, also one
\* that starts with "sim-"
ClientSessionIds == SessionIds \cup {SimulateSessionId(k) : k \in SessionIds}

\* inbound messages of the two endpoints together
MaxMixRequests == 4

\* one request at a time, on either endpoint
MixNext ==
    \/ \E session_id \in ClientSessionIds, text \in Texts :
           /\ requests = {} /\ TotalAccepted < MaxMixRequests
           /\ HoneypotReceive(session_id, "scammer", text, LLMSuccesses)
    \/ \E req \in requests, cb \in CallbackOutcomes : HoneypotFinish(req, cb)
    \/ \E sessionId \in SessionIds, text \in Texts :
           /\ requests = {} /\ TotalAccepted < MaxMixRequests
           /\ SimulateReceive(sessionId, text, LLMSuccesses)

MixSpec == LongInit /\ [][MixNext]_vars

\* the messages of session k that /api/honeypot has processed: it stores a row for
\* each, /api/simulate stores none
HoneypotMessages(k) ==
    Cardinality({i \in 1..Len(db.messages) : db.messages[i].session_id = k})

\* C37: the two endpoints share no session, whatever the session identifiers are: the
\* messages a session has counted were all processed by /api/honeypot or all by
\* /api/simulate
C37_EndpointsShareNoSession ==
    \A k \in DOMAIN sessions :
        HoneypotMessages(k) \in {0, sessions[k].message_count}

\* the message numbers the typing log of a session names
MessageNums(session_data) ==
    {session_data.typing_timestamps[i].message_num :
         i \in 1..Len(session_data.typing_timestamps)}

\* C38: under any interleaving of the requests of a session of /api/honeypot, when
\* none of them is in flight the typing log holds one entry for every message
\* processed, and the message numbers of its entries are the distinct numbers 1..n
C38_TypingLogNumbersDistinct ==
    \A k \in SessionIds \cap DOMAIN sessions :
        SessionRequests(k) = {} =>
            /\ Len(sessions[k].typing_timestamps) = sessions[k].message_count
            /\ MessageNums(sessions[k]) = 1..sessions[k].message_count

====
